---- MODULE Spec2Model ----
(***************************************************************************)
(* Model of the hid-sony derived driver core (src/unnamed/part_000):       *)
(* the global device list and id allocator, the per-device sony_sc record, *)
(* the attach (sony_input_configured) and detach (sony_remove) sequences,  *)
(* the input-report path (sony_raw_event), the LED / rumble mutators and   *)
(* the deferred state worker that encodes and sends the output report.     *)
(* The build is taken with CONFIG_SONY_FF and CONFIG_PM enabled.           *)
(***************************************************************************)
EXTENDS Integers, Sequences, FiniteSets, TLC

\* ------------------------------------------------------------------ bounds
NSess == 2              \* device sessions that can be bound at the same time
NMacs == 2              \* distinct physical addresses the devices report
MaxMuts == 2            \* saturation of the ghost count of coalesced mutations
MaxOthers == 11         \* ids that controllers outside the sessions may hold

\* ------------------------------------------------------- program constants
MAX_LEDS == 4
EEXIST == 17
ENOMEM == 12
EINVAL == 22
MOTION_SIZE == 49       \* length of the accelerometer-bearing input report
REPORT_SIZE == 36       \* sizeof(struct sixaxis_output_report)

SIXAXIS_CONTROLLER_USB == {"BIT1"}
SIXAXIS_CONTROLLER_BT == {"BIT2"}
GH_GUITAR_CONTROLLER == {"BIT14"}
SIXAXIS_CONTROLLER == SIXAXIS_CONTROLLER_USB \cup SIXAXIS_CONTROLLER_BT
SONY_LED_SUPPORT == SIXAXIS_CONTROLLER
SONY_BATTERY_SUPPORT == SIXAXIS_CONTROLLER
SONY_FF_SUPPORT == SIXAXIS_CONTROLLER
SONY_BT_DEVICE == SIXAXIS_CONTROLLER_BT

\* q & mask, for quirk words represented as sets of bits
Has(q, mask) == (q \cap mask) # {}

Sessions == 1..NSess
Macs == 1..NMacs
Variants == {SIXAXIS_CONTROLLER_USB, SIXAXIS_CONTROLLER_BT, GH_GUITAR_CONTROLLER}
Leds == 0..(MAX_LEDS - 1)

POWER_SUPPLY_STATUS_UNKNOWN == "Unknown"
POWER_SUPPLY_STATUS_CHARGING == "Charging"
POWER_SUPPLY_STATUS_DISCHARGING == "Discharging"
POWER_SUPPLY_STATUS_FULL == "Full"

VARIABLES
  sony_device_list,       \* global list of sessions, head first
  ida,                    \* ids currently allocated in sony_device_id_allocator
  dev_list_lock,          \* sony_dev_list_lock: free, or held by a context that died
  pc,                     \* position of each session in its lifecycle
  failing,                \* the cleanup in progress is the err_stop path of attach
  quirks, mac_address, list_node, device_id, append_dev_id,
  send_output_report, state_worker_initialized, defer_initialization,
  battery_capacity, battery_status, axes,
  sc_lock,                \* context that holds sc->lock around the battery fields
  parse_pos,              \* position of the input context inside sixaxis_parse_report
  get_pos,                \* position of a reader inside sony_battery_get_property
  got,                    \* ghost: the pair the last reader copied out
  written,                \* ghost: the pair the last decoded report has stored
  led_state, led_delay_on, led_delay_off, led_count, leds_registered,
  left, right,
  ff_pos,                 \* position of a caller inside sony_play_effect
  hw_open,                \* hid_hw_open done and not yet closed
  pending,                \* state_worker is queued (WORK_STRUCT_PENDING)
  wrun,                   \* position of the worker inside sony_state_worker
  susp,                   \* position of the PM context inside sony_suspend
  outbuf,                 \* contents of output_report_dmabuf
  lastSent,               \* last buffer handed to the transport
  lastBy,                 \* context that did the last transmission
  enqSnap,                \* ghost: device state when the flush was enqueued
  muts,                   \* ghost: mutations made while the flush is queued
  last                    \* ghost: the last handler step taken

regVars == <<sony_device_list, ida, dev_list_lock>>
lifeVars == <<pc, failing, quirks, mac_address, list_node, device_id, append_dev_id,
              send_output_report, state_worker_initialized, hw_open,
              led_count, leds_registered>>
battLock == <<sc_lock, parse_pos, get_pos, got>>
battVars == <<battery_capacity, battery_status, axes, battLock, written>>
ledVars == <<led_state, led_delay_on, led_delay_off>>
ffVars == <<left, right, ff_pos>>
workVars == <<pending, wrun, outbuf, lastSent, lastBy, enqSnap, muts>>
vars == <<regVars, lifeVars, battVars, ledVars, ffVars, workVars,
          defer_initialization, susp, last>>

\* ---------------------------------------------------------- bit operations
\* a | b and a & b on n bits; the operands are bound to their values once
RECURSIVE BitOr(_, _, _)
BitOr(a, b, n) ==
  IF n = 0 THEN 0
  ELSE LET bit[x \in {a}, y \in {b}] ==
             (IF x % 2 = 1 \/ y % 2 = 1 THEN 1 ELSE 0)
                + 2 * BitOr(x \div 2, y \div 2, n - 1)
       IN bit[a, b]

RECURSIVE BitAnd(_, _, _)
BitAnd(a, b, n) ==
  IF n = 0 THEN 0
  ELSE LET bit[x \in {a}, y \in {b}] ==
             (IF x % 2 = 1 /\ y % 2 = 1 THEN 1 ELSE 0)
                + 2 * BitAnd(x \div 2, y \div 2, n - 1)
       IN bit[a, b]

RECURSIVE Pow2(_)
Pow2(n) == IF n = 0 THEN 1 ELSE 2 * Pow2(n - 1)

\* (u8)(x | (v << k))
OrShiftU8(x, v, k) == BitOr(x, (v * Pow2(k)) % 256, 8)

Zero4 == [n \in Leds |-> 0]

\* ghost record of a handler step: the handler, the session, the value returned
\* and, for an input report, <<size, rd[0], rd[1], latch cleared by it>>, for
\* set_blink <<LED, delay_on, delay_off, on in ms, off in ms>> and for
\* set_rumble <<left, right>> as they are stored, for set_led <<LED, value,
\* value the LED had>>
StepA(op, s, ret, arg) == [op |-> op, s |-> s, ret |-> ret, arg |-> arg]
Step(op, s, ret) == StepA(op, s, ret, <<>>)

\* ------------------------------------------------------------ report codec
\* static const union sixaxis_output_report_01 default_report, bytes 0..35
default_report ==
  <<1,
    1, 255, 0, 255, 0,
    0, 0, 0, 0, 0,
    255, 39, 16, 0, 50,
    255, 39, 16, 0, 50,
    255, 39, 16, 0, 50,
    255, 39, 16, 0, 50,
    0, 0, 0, 0, 0>>

\* byte offsets inside struct sixaxis_output_report (packed)
OFF_RIGHT_MOTOR_ON == 3
OFF_LEFT_MOTOR_FORCE == 5
OFF_LEDS_BITMAP == 10
OFF_LED0 == 11
LED_STRUCT_SIZE == 5
OFF_DUTY_OFF == 3
OFF_DUTY_ON == 4

\* buf with the byte at C offset off replaced by v
SetByte(buf, off, v) == [buf EXCEPT ![off + 1] = v]
GetByte(buf, off) == buf[off + 1]

\* the device state the encoder reads
DevState(s) == [led_state |-> led_state[s], led_delay_on |-> led_delay_on[s],
                led_delay_off |-> led_delay_off[s], left |-> left[s], right |-> right[s]]

\* mutant: the bit of LED n is bit n
LedsBitmap_bit_n(ls) ==
  LET b0 == GetByte(default_report, OFF_LEDS_BITMAP)
      b1 == OrShiftU8(b0, ls[0], 0)
      b2 == OrShiftU8(b1, ls[1], 1)
      b3 == OrShiftU8(b2, ls[2], 2)
      b4 == OrShiftU8(b3, ls[3], 3)
  IN IF BitAnd(b4, 30, 8) = 0 THEN BitOr(b4, 32, 8) ELSE b4

\* leds_bitmap after the four |= and the all-off flag
LedsBitmap(ls) ==
  LET b0 == GetByte(default_report, OFF_LEDS_BITMAP)
      b1 == OrShiftU8(b0, ls[0], 1)
      b2 == OrShiftU8(b1, ls[1], 2)
      b3 == OrShiftU8(b2, ls[2], 3)
      b4 == OrShiftU8(b3, ls[3], 4)
  IN IF BitAnd(b4, 30, 8) = 0 THEN BitOr(b4, 32, 8) ELSE b4

RECURSIVE LedTimings_forward(_, _, _)
\* mutant: LED n is written into timing slot n
LedTimings_forward(buf, st, n) ==
  IF n >= 4 THEN buf
  ELSE LET base == OFF_LED0 + LED_STRUCT_SIZE * n
           nb == IF st.led_delay_on[n] # 0 \/ st.led_delay_off[n] # 0
                 THEN SetByte(SetByte(buf, base + OFF_DUTY_OFF, st.led_delay_off[n]),
                              base + OFF_DUTY_ON, st.led_delay_on[n])
                 ELSE buf
       IN LedTimings_forward(nb, st, n + 1)

RECURSIVE LedTimings(_, _, _)
\* the for loop over n = from..3 writing duty_off / duty_on of led[3 - n]
LedTimings(buf, st, n) ==
  IF n >= 4 THEN buf
  ELSE LET base == OFF_LED0 + LED_STRUCT_SIZE * (3 - n)
           nb == IF st.led_delay_on[n] # 0 \/ st.led_delay_off[n] # 0
                 THEN SetByte(SetByte(buf, base + OFF_DUTY_OFF, st.led_delay_off[n]),
                              base + OFF_DUTY_ON, st.led_delay_on[n])
                 ELSE buf
       IN LedTimings(nb, st, n + 1)

\* the buffer sixaxis_send_output_report builds from the state st
EncodeReport(st) ==
  LET r1 == SetByte(default_report, OFF_RIGHT_MOTOR_ON, IF st.right # 0 THEN 1 ELSE 0)
      r2 == SetByte(r1, OFF_LEFT_MOTOR_FORCE, st.left)
      r3 == SetByte(r2, OFF_LEDS_BITMAP, LedsBitmap(st.led_state))
  IN LedTimings(r3, st, 0)

\* the values buzz_set_leds puts into the HID output report
BuzzReport(ls) ==
  <<0, IF ls[0] # 0 THEN 255 ELSE 0, IF ls[1] # 0 THEN 255 ELSE 0,
       IF ls[2] # 0 THEN 255 ELSE 0, IF ls[3] # 0 THEN 255 ELSE 0, 0, 0>>

NoBuf == <<>>

\* a context that is not inside its critical section
Idle == [st |-> "idle"]

\* ------------------------------------------------------------------- Init
ZeroState == [led_state |-> Zero4, led_delay_on |-> Zero4, led_delay_off |-> Zero4,
              left |-> 0, right |-> 0]

Init ==
  /\ sony_device_list = <<>>
  /\ ida = {}
  /\ dev_list_lock = "free"
  /\ pc = [s \in Sessions |-> "unbound"]
  /\ failing = [s \in Sessions |-> FALSE]
  /\ quirks = [s \in Sessions |-> {}]
  /\ mac_address = [s \in Sessions |-> 0]
  /\ list_node = [s \in Sessions |-> "null"]
  /\ device_id = [s \in Sessions |-> 0]
  /\ append_dev_id = [s \in Sessions |-> 0]
  /\ send_output_report = [s \in Sessions |-> "NULL"]
  /\ state_worker_initialized = [s \in Sessions |-> 0]
  /\ defer_initialization = [s \in Sessions |-> 0]
  /\ battery_capacity = [s \in Sessions |-> 0]
  /\ battery_status = [s \in Sessions |-> POWER_SUPPLY_STATUS_UNKNOWN]
  /\ axes = [s \in Sessions |-> <<0, 0, 0>>]
  /\ sc_lock = [s \in Sessions |-> "free"]
  /\ parse_pos = [s \in Sessions |-> Idle]
  /\ get_pos = [s \in Sessions |-> Idle]
  /\ got = [s \in Sessions |-> <<>>]
  /\ written = [s \in Sessions |-> <<>>]
  /\ led_state = [s \in Sessions |-> Zero4]
  /\ led_delay_on = [s \in Sessions |-> Zero4]
  /\ led_delay_off = [s \in Sessions |-> Zero4]
  /\ led_count = [s \in Sessions |-> 0]
  /\ leds_registered = [s \in Sessions |-> 0]
  /\ left = [s \in Sessions |-> 0]
  /\ right = [s \in Sessions |-> 0]
  /\ ff_pos = [s \in Sessions |-> Idle]
  /\ hw_open = [s \in Sessions |-> FALSE]
  /\ pending = [s \in Sessions |-> 0]
  /\ wrun = [s \in Sessions |-> "idle"]
  /\ susp = [s \in Sessions |-> "none"]
  /\ outbuf = [s \in Sessions |-> NoBuf]
  /\ lastSent = [s \in Sessions |-> NoBuf]
  /\ lastBy = [s \in Sessions |-> "none"]
  /\ enqSnap = [s \in Sessions |-> ZeroState]
  /\ muts = [s \in Sessions |-> 0]
  /\ last = Step("init", 0, 0)

\* ------------------------------------------------- registry and id pool
\* mutant: the next id is the number of ids in use
ida_alloc_count(pool) == Cardinality(pool)

\* mutant: the id after the largest one in use
ida_alloc_after_largest(pool) ==
  IF pool = {} THEN 0 ELSE (CHOOSE i \in pool : \A j \in pool : j <= i) + 1

\* ida_alloc: the smallest id that is not allocated
ida_alloc(pool) ==
  CHOOSE i \in 0..Cardinality(pool) : i \notin pool /\ \A j \in 0..(i - 1) : j \in pool

\* ida_free
ida_free(pool, id) == pool \ {id}

\* mutant: the comparison of the two classifications inverted
sony_compare_connection_type_inverted(q0, q1) ==
  (~Has(q0, SONY_BT_DEVICE)) # (~Has(q1, SONY_BT_DEVICE))

sony_compare_connection_type(q0, q1) ==
  LET sc0_not_bt == ~Has(q0, SONY_BT_DEVICE)
      sc1_not_bt == ~Has(q1, SONY_BT_DEVICE)
  IN sc0_not_bt = sc1_not_bt

\* positions of the list whose entry has the address m
MatchPos(list, m) == {i \in 1..Len(list) : mac_address[list[i]] = m}

FirstMatch(list, m) ==
  LET ps == MatchPos(list, m) IN list[CHOOSE i \in ps : \A j \in ps : i <= j]

\* mutant: any entry with the same address makes the new session a duplicate
CheckAddRet_always_dup(list, q, m) == IF MatchPos(list, m) # {} THEN 1 ELSE 0

\* return value of sony_check_add_dev_list for a session of quirks q, address m
CheckAddRet(list, q, m) ==
  IF MatchPos(list, m) # {}
  THEN IF sony_compare_connection_type(q, quirks[FirstMatch(list, m)]) THEN 1 ELSE -EEXIST
  ELSE 0

\* mutant: the node is added whether an entry has the address or not
CheckAddList_always_add(list, s, q, m) == <<s>> \o list

\* the list after sony_check_add_dev_list (list_add puts the node at the head)
CheckAddList(list, s, q, m) ==
  IF MatchPos(list, m) # {} THEN list ELSE <<s>> \o list

\* list_del
ListDel(list, s) == SelectSeq(list, LAMBDA e : e # s)

InList(s) == \E i \in 1..Len(sony_device_list) : sony_device_list[i] = s

\* ------------------------------------------------------------ scheduling
\* schedule_work: queue the work unless it is already queued
schedule_work(p) == IF p = 0 THEN 1 ELSE p

\* mutant: the latch is not looked at
MaySchedule_ignore_latch(defer, swi) == swi # 0

\* condition under which sony_schedule_work queues the state worker
MaySchedule(defer, swi) == defer = 0 /\ swi # 0

\* mutant: nothing is queued while an instance of the worker is running
SonyScheduleWork_unless_running(s, defer, st, mutation) ==
  IF MaySchedule(defer, state_worker_initialized[s]) /\ wrun[s] = "idle"
  THEN /\ pending' = [pending EXCEPT ![s] = schedule_work(@)]
       /\ IF pending[s] = 0
          THEN /\ enqSnap' = [enqSnap EXCEPT ![s] = st]
               /\ muts' = [muts EXCEPT ![s] = 0]
          ELSE /\ enqSnap' = enqSnap
               /\ muts' = [muts EXCEPT ![s] =
                             IF mutation /\ @ < MaxMuts THEN @ + 1 ELSE @]
  ELSE UNCHANGED <<pending, enqSnap, muts>>

\* sony_schedule_work(sc, SONY_WORKER_STATE) called with the latch value defer and
\* the device state st just written; mutation tells a mutator from the input path
SonyScheduleWork(s, defer, st, mutation) ==
  IF MaySchedule(defer, state_worker_initialized[s])
  THEN /\ pending' = [pending EXCEPT ![s] = schedule_work(@)]
       /\ IF pending[s] = 0
          THEN /\ enqSnap' = [enqSnap EXCEPT ![s] = st]
               /\ muts' = [muts EXCEPT ![s] = 0]
          ELSE /\ enqSnap' = enqSnap
               /\ muts' = [muts EXCEPT ![s] =
                             IF mutation /\ @ < MaxMuts THEN @ + 1 ELSE @]
  ELSE UNCHANGED <<pending, enqSnap, muts>>

\* ------------------------------------------------------------- lifecycle
\* mutant: every device is handled as a sixaxis
IsSixaxis_any(s) == TRUE

\* sc->quirks & SIXAXIS_CONTROLLER
IsSixaxis(s) == Has(quirks[s], SIXAXIS_CONTROLLER)

\* enter the err_stop path of sony_input_configured with return value ret
Fail(s, op, ret) ==
  /\ pc' = [pc EXCEPT ![s] = "c_cancel"]
  /\ failing' = [failing EXCEPT ![s] = TRUE]
  /\ last' = Step(op, s, ret)

\* sony_probe up to the call of sony_input_configured: a zeroed sony_sc
Probe(s, q) ==
  /\ pc[s] = "unbound"
  /\ quirks' = [quirks EXCEPT ![s] = q]
  /\ pc' = [pc EXCEPT ![s] = "a_id"]
  /\ last' = Step("probe", s, 0)
  /\ UNCHANGED <<regVars, failing, mac_address, list_node, device_id, append_dev_id,
                 send_output_report, state_worker_initialized, hw_open, led_count,
                 leds_registered, battVars, ledVars, ffVars, workVars,
                 defer_initialization, susp>>

\* sony_set_device_id; ok = FALSE is ida_alloc failing
SetDeviceId(s, ok) ==
  /\ pc[s] = "a_id"
  /\ IF IsSixaxis(s)
     THEN IF ok
          THEN /\ device_id' = [device_id EXCEPT ![s] = ida_alloc(ida)]
               /\ ida' = ida \cup {ida_alloc(ida)}
               /\ pc' = [pc EXCEPT ![s] = "a_add"]
               /\ last' = Step("set_device_id", s, 0)
               /\ UNCHANGED failing
          ELSE /\ device_id' = [device_id EXCEPT ![s] = -1]
               /\ ida' = ida
               /\ Fail(s, "set_device_id", -ENOMEM)
     ELSE /\ ok
          /\ device_id' = [device_id EXCEPT ![s] = -1]
          /\ ida' = ida
          /\ pc' = [pc EXCEPT ![s] = "a_add"]
          /\ last' = Step("set_device_id", s, 0)
          /\ UNCHANGED failing
  /\ UNCHANGED <<sony_device_list, dev_list_lock, quirks, mac_address, list_node,
                 append_dev_id,
                 send_output_report, state_worker_initialized, hw_open, led_count,
                 leds_registered, battVars, ledVars, ffVars, workVars,
                 defer_initialization, susp>>

\* sony_check_add; m = 0 stands for the address not being obtained
\* (sony_get_bt_devaddr failing on Bluetooth, the 0xf2 request failing on USB)
CheckAdd(s, m) ==
  /\ pc[s] = "a_add"
  /\ LET q == quirks[s]
         noaddr == m = 0
         ret == IF ~IsSixaxis(s) THEN 0
                ELSE IF noaddr THEN (IF Has(q, SIXAXIS_CONTROLLER_BT) THEN 0 ELSE -EINVAL)
                ELSE CheckAddRet(sony_device_list, q, m)
         added == IsSixaxis(s) /\ ~noaddr /\ ret = 0
     IN /\ ~IsSixaxis(s) => noaddr
        /\ (IsSixaxis(s) /\ ~noaddr) => dev_list_lock = "free"
        /\ mac_address' = [mac_address EXCEPT ![s] = m]
        /\ sony_device_list' = IF IsSixaxis(s) /\ ~noaddr
                               THEN CheckAddList(sony_device_list, s, q, m)
                               ELSE sony_device_list
        /\ list_node' = [list_node EXCEPT ![s] = IF added THEN "linked" ELSE @]
        /\ append_dev_id' = [append_dev_id EXCEPT ![s] = ret]
        /\ IF ret < 0
           THEN Fail(s, "check_add", ret)
           ELSE /\ pc' = [pc EXCEPT ![s] = "a_alloc"]
                /\ last' = Step("check_add", s, ret)
                /\ UNCHANGED failing
  /\ UNCHANGED <<ida, dev_list_lock, quirks, device_id, send_output_report,
                 state_worker_initialized,
                 hw_open, led_count, leds_registered, battVars, ledVars, ffVars,
                 workVars, defer_initialization, susp>>

\* sony_allocate_output_report; ok = FALSE is devm_kmalloc failing
AllocateOutputReport(s, ok) ==
  /\ pc[s] = "a_alloc"
  /\ IF IsSixaxis(s) /\ ~ok
     THEN Fail(s, "allocate_output_report", -ENOMEM)
     ELSE /\ ok
          /\ pc' = [pc EXCEPT ![s] = "a_oper"]
          /\ last' = Step("allocate_output_report", s, 0)
          /\ UNCHANGED failing
  /\ UNCHANGED <<regVars, quirks, mac_address, list_node, device_id, append_dev_id,
                 send_output_report, state_worker_initialized, hw_open, led_count,
                 leds_registered, battVars, ledVars, ffVars, workVars,
                 defer_initialization, susp>>

\* mutant: the worker is made usable and the encoder is left as it was
sony_init_output_report_flag_only(s) ==
  /\ UNCHANGED send_output_report
  /\ state_worker_initialized' = [state_worker_initialized EXCEPT ![s] = 1]

\* sony_init_output_report
sony_init_output_report(s) ==
  /\ send_output_report' = [send_output_report EXCEPT ![s] = "sixaxis_send_output_report"]
  /\ state_worker_initialized' = [state_worker_initialized EXCEPT ![s] = 1]

\* the per-bus block of sony_input_configured: operational mode, sensors,
\* output report; ok = FALSE is sixaxis_set_operational_* or
\* sony_register_sensors failing.  Other devices return 0 from here.
SetOperational(s, ok) ==
  /\ pc[s] = "a_oper"
  /\ defer_initialization' = [defer_initialization EXCEPT ![s] =
       IF Has(quirks[s], SIXAXIS_CONTROLLER_USB) THEN 1 ELSE @]
  /\ IF IsSixaxis(s)
     THEN IF ok
          THEN /\ sony_init_output_report(s)
               /\ pc' = [pc EXCEPT ![s] = "a_leds"]
               /\ last' = Step("set_operational", s, 0)
               /\ UNCHANGED failing
          ELSE /\ Fail(s, "set_operational", -ENOMEM)
               /\ UNCHANGED <<send_output_report, state_worker_initialized>>
     ELSE /\ ok
          /\ pc' = [pc EXCEPT ![s] = "operational"]
          /\ last' = Step("input_configured", s, 0)
          /\ UNCHANGED <<failing, send_output_report, state_worker_initialized>>
  /\ UNCHANGED <<regVars, quirks, mac_address, list_node, device_id, append_dev_id,
                 hw_open, led_count, leds_registered, battVars, ledVars, ffVars,
                 workVars, susp>>

\* static const u8 sixaxis_leds[10][4]
sixaxis_leds ==
  << <<1, 0, 0, 0>>, <<0, 1, 0, 0>>, <<0, 0, 1, 0>>, <<0, 0, 0, 1>>, <<1, 0, 0, 1>>,
     <<0, 1, 0, 1>>, <<0, 0, 1, 1>>, <<1, 0, 1, 1>>, <<0, 1, 1, 1>>, <<1, 1, 1, 1>> >>

\* mutant: an id past the table takes its last entry
LedsFromId_no_wrap(id, ls) ==
  IF id < 0 THEN ls
  ELSE [n \in Leds |-> sixaxis_leds[(IF id > 9 THEN 9 ELSE id) + 1][n + 1]]

\* sixaxis_set_leds_from_id: the led_state it leaves for device id and state ls
LedsFromId(id, ls) ==
  IF id < 0 THEN ls ELSE [n \in Leds |-> sixaxis_leds[(id % 10) + 1][n + 1]]

\* sony_leds_init; k < 4 is the registration of LED k failing after LEDs 0..k-1
\* were registered, k = 4 is success.  sony_set_leds sends the LED report at once.
LedsInit(s, k) ==
  /\ pc[s] = "a_leds"
  /\ LET ls == LedsFromId(device_id[s], led_state[s])
     IN /\ led_state' = [led_state EXCEPT ![s] = ls]
        /\ lastSent' = [lastSent EXCEPT ![s] = BuzzReport(ls)]
        /\ lastBy' = [lastBy EXCEPT ![s] = "leds_init"]
  /\ led_count' = [led_count EXCEPT ![s] = 4]
  /\ leds_registered' = [leds_registered EXCEPT ![s] = k]
  /\ IF k = 4
     THEN /\ pc' = [pc EXCEPT ![s] = "a_batt"]
          /\ last' = Step("leds_init", s, 0)
          /\ UNCHANGED failing
     ELSE Fail(s, "leds_init", -ENOMEM)
  /\ UNCHANGED <<regVars, quirks, mac_address, list_node, device_id, append_dev_id,
                 send_output_report, state_worker_initialized, hw_open, battVars,
                 led_delay_on, led_delay_off, ffVars, pending, wrun, outbuf, enqSnap,
                 muts, defer_initialization, susp>>

\* mutant: the capacity of the allocation is kept
ProbeCapacity_keep(c) == c

\* sony_battery_probe: sc->battery_capacity = 100, whatever it was
ProbeCapacity(c) == 100

\* sony_battery_probe followed by hid_hw_open; ok = FALSE is either failing
BatteryProbe(s, ok) ==
  /\ pc[s] = "a_batt"
  /\ battery_capacity' = [battery_capacity EXCEPT ![s] = ProbeCapacity(@)]
  /\ IF ok
     THEN /\ hw_open' = [hw_open EXCEPT ![s] = TRUE]
          /\ pc' = [pc EXCEPT ![s] = "a_ff"]
          /\ last' = Step("battery_probe", s, 0)
          /\ UNCHANGED failing
     ELSE /\ Fail(s, "battery_probe", -ENOMEM)
          /\ UNCHANGED hw_open
  /\ UNCHANGED <<regVars, quirks, mac_address, list_node, device_id, append_dev_id,
                 send_output_report, state_worker_initialized, led_count,
                 leds_registered, battery_status, axes, battLock, written, ledVars,
                 ffVars, workVars,
                 defer_initialization, susp>>

\* sony_init_ff and the return of sony_input_configured; ok = FALSE takes err_close
InitFF(s, ok) ==
  /\ pc[s] = "a_ff"
  /\ IF ok
     THEN /\ pc' = [pc EXCEPT ![s] = "operational"]
          /\ last' = Step("input_configured", s, 0)
          /\ UNCHANGED <<failing, hw_open>>
     ELSE /\ hw_open' = [hw_open EXCEPT ![s] = FALSE]
          /\ Fail(s, "init_ff", -ENOMEM)
  /\ UNCHANGED <<regVars, quirks, mac_address, list_node, device_id, append_dev_id,
                 send_output_report, state_worker_initialized, led_count,
                 leds_registered, battVars, ledVars, ffVars, workVars,
                 defer_initialization, susp>>

\* sony_remove up to hid_hw_close
Remove(s) ==
  /\ pc[s] = "operational"
  /\ susp[s] = "none"
  /\ hw_open' = [hw_open EXCEPT ![s] = FALSE]
  /\ pc' = [pc EXCEPT ![s] = "c_cancel"]
  /\ failing' = [failing EXCEPT ![s] = FALSE]
  /\ last' = Step("remove", s, 0)
  /\ UNCHANGED <<regVars, quirks, mac_address, list_node, device_id, append_dev_id,
                 send_output_report, state_worker_initialized, led_count,
                 leds_registered, battVars, ledVars, ffVars, workVars,
                 defer_initialization, susp>>

\* value sony_cancel_work_sync leaves in state_worker_initialized
CancelFlag(swi) == 0

\* sony_cancel_work_sync, first half: clear the flag under the lock
CancelWork(s) ==
  /\ pc[s] = "c_cancel"
  /\ IF state_worker_initialized[s] # 0
     THEN /\ state_worker_initialized' =
               [state_worker_initialized EXCEPT ![s] = CancelFlag(@)]
          /\ pc' = [pc EXCEPT ![s] = "c_sync"]
     ELSE /\ pc' = [pc EXCEPT ![s] = "c_list"]
          /\ UNCHANGED state_worker_initialized
  /\ last' = Step("cancel_work", s, 0)
  /\ UNCHANGED <<regVars, failing, quirks, mac_address, list_node, device_id,
                 append_dev_id, send_output_report, hw_open, led_count,
                 leds_registered, battVars, ledVars, ffVars, workVars,
                 defer_initialization, susp>>

\* mutant: the work is cancelled without waiting for a running instance
SyncDone_no_wait(w) == TRUE

\* cancel_work_sync may return: no instance of the worker is running
SyncDone(w) == w = "idle"

\* sony_cancel_work_sync, second half: cancel_work_sync dequeues the work and
\* returns once no instance of it is running
CancelSync(s) ==
  /\ pc[s] = "c_sync"
  /\ SyncDone(wrun[s])
  /\ pending' = [pending EXCEPT ![s] = 0]
  /\ pc' = [pc EXCEPT ![s] = "c_list"]
  /\ last' = Step("cancel_work_sync", s, 0)
  /\ UNCHANGED <<regVars, failing, quirks, mac_address, list_node, device_id,
                 append_dev_id, send_output_report, state_worker_initialized, hw_open,
                 led_count, leds_registered, battVars, ledVars, ffVars, wrun, outbuf,
                 lastSent, lastBy, enqSnap, muts, defer_initialization, susp>>

\* what sony_remove_dev_list does to the registry.  list_node.next is NULL in
\* a session that was never inserted and LIST_POISON1 after list_del, which
\* is not NULL: list_del is then applied to a node that is in no list, and
\* either the list debugging refuses the deletion (fault = FALSE) or the
\* poisoned pointer is dereferenced with sony_dev_list_lock held (fault = TRUE)
sony_remove_dev_list(s, fault) ==
  IF list_node[s] = "null"
  THEN UNCHANGED <<sony_device_list, list_node, dev_list_lock>>
  ELSE /\ dev_list_lock = "free"
       /\ IF list_node[s] = "linked"
          THEN /\ sony_device_list' = ListDel(sony_device_list, s)
               /\ list_node' = [list_node EXCEPT ![s] = "poison"]
               /\ UNCHANGED dev_list_lock
          ELSE /\ dev_list_lock' = IF fault THEN "dead" ELSE dev_list_lock
               /\ UNCHANGED <<sony_device_list, list_node>>

\* sony_remove_dev_list
RemoveDevList(s) ==
  /\ pc[s] = "c_list"
  /\ \E fault \in BOOLEAN : sony_remove_dev_list(s, fault)
  /\ pc' = [pc EXCEPT ![s] = "c_id"]
  /\ last' = Step("remove_dev_list", s, 0)
  /\ UNCHANGED <<ida, failing, quirks, mac_address, device_id, append_dev_id,
                 send_output_report, state_worker_initialized, hw_open, led_count,
                 leds_registered, battVars, ledVars, ffVars, workVars,
                 defer_initialization, susp>>

\* a further call of sony_remove_dev_list for a session whose cleanup has
\* passed its own call and whose memory is not yet released
RemoveDevListAgain(s) ==
  /\ pc[s] \in {"c_id", "gone", "failed"}
  /\ \E fault \in BOOLEAN : sony_remove_dev_list(s, fault)
  /\ last' = StepA("remove_dev_list_again", s, 0, <<list_node[s]>>)
  /\ UNCHANGED <<ida, pc, failing, quirks, mac_address, device_id, append_dev_id,
                 send_output_report, state_worker_initialized, hw_open, led_count,
                 leds_registered, battVars, ledVars, ffVars, workVars,
                 defer_initialization, susp>>

\* mutant: the session keeps the number of the id it gave back
ReleasedId_kept(id) == id

\* sc->device_id after sony_release_device_id of a session holding id
ReleasedId(id) == IF id >= 0 THEN -1 ELSE id

\* mutant: the id is not given back
ReleasePool_leak(pool, id) == pool

\* the pool after sony_release_device_id of a session holding id
ReleasePool(pool, id) == IF id >= 0 THEN ida_free(pool, id) ELSE pool

\* sony_release_device_id, then the return of sony_input_configured (err_stop)
\* or of sony_remove
ReleaseDeviceId(s) ==
  /\ pc[s] = "c_id"
  /\ ida' = ReleasePool(ida, device_id[s])
  /\ device_id' = [device_id EXCEPT ![s] = ReleasedId(@)]
  /\ pc' = [pc EXCEPT ![s] = IF failing[s] THEN "failed" ELSE "gone"]
  /\ last' = Step("release_device_id", s, 0)
  /\ UNCHANGED <<sony_device_list, dev_list_lock, failing, quirks, mac_address, list_node,
                 append_dev_id, send_output_report, state_worker_initialized, hw_open,
                 led_count, leds_registered, battVars, ledVars, ffVars, workVars,
                 defer_initialization, susp>>

\* a further call of sony_release_device_id for a session whose cleanup has
\* made its own call and whose memory is not yet released; the function
\* has no assertion and returns normally
ReleaseDeviceIdAgain(s) ==
  /\ pc[s] \in {"gone", "failed"}
  /\ ida' = ReleasePool(ida, device_id[s])
  /\ device_id' = [device_id EXCEPT ![s] = ReleasedId(@)]
  /\ last' = StepA("release_device_id_again", s, 0, <<device_id[s]>>)
  /\ UNCHANGED <<sony_device_list, dev_list_lock, pc, failing, quirks, mac_address,
                 list_node, append_dev_id, send_output_report, state_worker_initialized,
                 hw_open, led_count, leds_registered, battVars, ledVars, ffVars,
                 workVars, defer_initialization, susp>>

\* the driver core frees the devm-allocated sony_sc after a failed probe or
\* after remove; the device can be bound again
Unbind(s) ==
  /\ pc[s] \in {"failed", "gone"}
  /\ pc' = [pc EXCEPT ![s] = "unbound"]
  /\ failing' = [failing EXCEPT ![s] = FALSE]
  /\ quirks' = [quirks EXCEPT ![s] = {}]
  /\ mac_address' = [mac_address EXCEPT ![s] = 0]
  /\ list_node' = [list_node EXCEPT ![s] = "null"]
  /\ device_id' = [device_id EXCEPT ![s] = 0]
  /\ append_dev_id' = [append_dev_id EXCEPT ![s] = 0]
  /\ send_output_report' = [send_output_report EXCEPT ![s] = "NULL"]
  /\ state_worker_initialized' = [state_worker_initialized EXCEPT ![s] = 0]
  /\ defer_initialization' = [defer_initialization EXCEPT ![s] = 0]
  /\ battery_capacity' = [battery_capacity EXCEPT ![s] = 0]
  /\ battery_status' = [battery_status EXCEPT ![s] = POWER_SUPPLY_STATUS_UNKNOWN]
  /\ axes' = [axes EXCEPT ![s] = <<0, 0, 0>>]
  /\ sc_lock' = [sc_lock EXCEPT ![s] = "free"]
  /\ parse_pos' = [parse_pos EXCEPT ![s] = Idle]
  /\ get_pos' = [get_pos EXCEPT ![s] = Idle]
  /\ got' = [got EXCEPT ![s] = <<>>]
  /\ written' = [written EXCEPT ![s] = <<>>]
  /\ led_state' = [led_state EXCEPT ![s] = Zero4]
  /\ led_delay_on' = [led_delay_on EXCEPT ![s] = Zero4]
  /\ led_delay_off' = [led_delay_off EXCEPT ![s] = Zero4]
  /\ led_count' = [led_count EXCEPT ![s] = 0]
  /\ leds_registered' = [leds_registered EXCEPT ![s] = 0]
  /\ left' = [left EXCEPT ![s] = 0]
  /\ right' = [right EXCEPT ![s] = 0]
  /\ ff_pos' = [ff_pos EXCEPT ![s] = Idle]
  /\ outbuf' = [outbuf EXCEPT ![s] = NoBuf]
  /\ lastSent' = [lastSent EXCEPT ![s] = NoBuf]
  /\ lastBy' = [lastBy EXCEPT ![s] = "none"]
  /\ enqSnap' = [enqSnap EXCEPT ![s] = ZeroState]
  /\ muts' = [muts EXCEPT ![s] = 0]
  /\ susp' = [susp EXCEPT ![s] = "none"]
  /\ last' = Step("unbind", s, 0)
  /\ UNCHANGED <<regVars, hw_open, pending, wrun>>

\* ---------------------------------------------------------------- mutators
\* the LED class device n of the session is registered
LedRegistered(s, n) == pc[s] # "unbound" /\ n < leds_registered[s]

\* mutant: the update is not forced for the controller on USB
LedUpdateNeeded_no_force(s, n, value) ==
  value # led_state[s][n] \/ led_delay_on[s][n] # 0 \/ led_delay_off[s][n] # 0

\* mutant: the delays of the LED are not looked at
LedUpdateNeeded_value_only(s, n, value) ==
  LET force_update == Has(quirks[s], SIXAXIS_CONTROLLER_USB)
  IN force_update \/ value # led_state[s][n]

\* the condition of sony_led_set_brightness under which LED n is updated
LedUpdateNeeded(s, n, value) ==
  LET force_update == Has(quirks[s], SIXAXIS_CONTROLLER_USB)
  IN force_update \/ value # led_state[s][n] \/ led_delay_on[s][n] # 0
                  \/ led_delay_off[s][n] # 0

\* sony_led_set_brightness on LED n; sony_set_leds is buzz_set_leds, which sends
\* the LED report with hid_hw_request before returning
SetLed(s, n, value) ==
  /\ LedRegistered(s, n)
  /\ IF n < led_count[s] /\ LedUpdateNeeded(s, n, value)
     THEN /\ led_state' = [led_state EXCEPT ![s][n] = value]
          /\ led_delay_on' = [led_delay_on EXCEPT ![s][n] = 0]
          /\ led_delay_off' = [led_delay_off EXCEPT ![s][n] = 0]
          /\ lastSent' = [lastSent EXCEPT ![s] = BuzzReport(led_state'[s])]
          /\ lastBy' = [lastBy EXCEPT ![s] = "set_led"]
          /\ last' = StepA("set_led", s, 1, <<n, value, led_state[s][n]>>)
     ELSE /\ UNCHANGED <<ledVars, lastSent, lastBy>>
          /\ last' = StepA("set_led", s, 0, <<n, value, led_state[s][n]>>)
  /\ UNCHANGED <<regVars, lifeVars, battVars, ffVars, pending, wrun, outbuf, enqSnap,
                 muts, defer_initialization, susp>>

\* sony_led_blink_set: the delay in deciseconds stored for a delay in ms
BlinkClamp(ms) == IF ms > 2550 THEN 2550 ELSE ms
NewOn(on_ms, off_ms) ==
  (IF BlinkClamp(on_ms) = 0 /\ BlinkClamp(off_ms) = 0 THEN 500 ELSE BlinkClamp(on_ms)) \div 10
NewOff(on_ms, off_ms) ==
  (IF BlinkClamp(on_ms) = 0 /\ BlinkClamp(off_ms) = 0 THEN 500 ELSE BlinkClamp(off_ms)) \div 10

\* sony_led_blink_set on LED n
BlinkSet(s, n, on_ms, off_ms) ==
  /\ LedRegistered(s, n)
  /\ n < led_count[s]
  /\ LET new_on == NewOn(on_ms, off_ms)
         new_off == NewOff(on_ms, off_ms)
     IN IF new_on # led_delay_on[s][n] \/ new_off # led_delay_off[s][n]
        THEN /\ led_delay_on' = [led_delay_on EXCEPT ![s][n] = new_on]
             /\ led_delay_off' = [led_delay_off EXCEPT ![s][n] = new_off]
             /\ SonyScheduleWork(s, defer_initialization[s],
                  [DevState(s) EXCEPT !.led_delay_on[n] = new_on,
                                      !.led_delay_off[n] = new_off], TRUE)
             /\ last' = StepA("set_blink", s, 1, <<n, new_on, new_off, on_ms, off_ms>>)
        ELSE /\ UNCHANGED <<led_delay_on, led_delay_off, pending, enqSnap, muts>>
             /\ last' = StepA("set_blink", s, 0, <<n, new_on, new_off, on_ms, off_ms>>)
  /\ UNCHANGED <<regVars, lifeVars, battVars, led_state, ffVars, wrun, outbuf,
                 lastSent, lastBy, defer_initialization, susp>>

\* the force-feedback device exists: from sony_init_ff to hid_hw_stop
FFRegistered(s) ==
  /\ IsSixaxis(s)
  /\ pc[s] \in {"operational", "c_cancel", "c_sync", "c_list", "c_id"}
  /\ ~failing[s]

\* sony_play_effect with an FF_RUMBLE effect
PlayEffect(s, strong, weak) ==
  /\ FFRegistered(s)
  /\ ff_pos[s] = Idle
  /\ left' = [left EXCEPT ![s] = strong \div 256]
  /\ right' = [right EXCEPT ![s] = weak \div 256]
  /\ SonyScheduleWork(s, defer_initialization[s],
       [DevState(s) EXCEPT !.left = strong \div 256, !.right = weak \div 256], TRUE)
  /\ last' = StepA("set_rumble", s, 1, <<strong \div 256, weak \div 256>>)
  /\ UNCHANGED <<regVars, lifeVars, battVars, ledVars, ff_pos, wrun, outbuf, lastSent,
                 lastBy, defer_initialization, susp>>

\* sony_play_effect up to its first store: sc->left = strong_magnitude / 256
PlayWriteLeft(s, strong, weak) ==
  /\ FFRegistered(s)
  /\ ff_pos[s] = Idle
  /\ left' = [left EXCEPT ![s] = strong \div 256]
  /\ ff_pos' = [ff_pos EXCEPT ![s] = [st |-> "left", weak |-> weak]]
  /\ last' = StepA("play_left", s, 0, <<strong \div 256, weak \div 256>>)
  /\ UNCHANGED <<regVars, lifeVars, battVars, ledVars, right, workVars,
                 defer_initialization, susp>>

\* sony_play_effect from its second store: sc->right = weak_magnitude / 256,
\* sony_schedule_work and the return
PlayWriteRight(s) ==
  /\ ff_pos[s].st = "left"
  /\ right' = [right EXCEPT ![s] = ff_pos[s].weak \div 256]
  /\ ff_pos' = [ff_pos EXCEPT ![s] = Idle]
  /\ SonyScheduleWork(s, defer_initialization[s],
       [DevState(s) EXCEPT !.right = ff_pos[s].weak \div 256], TRUE)
  /\ last' = StepA("set_rumble", s, 1, <<left[s], ff_pos[s].weak \div 256>>)
  /\ UNCHANGED <<regVars, lifeVars, battVars, ledVars, left, wrun, outbuf, lastSent,
                 lastBy, defer_initialization, susp>>

\* ------------------------------------------------------------ flush worker
\* mutant: the worker encodes the state saved when the flush was queued
FlushSource_at_enqueue(s) == enqSnap[s]

\* the device state sixaxis_send_output_report encodes when run by the worker
FlushSource(s) == DevState(s)

\* a worker thread takes the queued work and enters sony_state_worker
WorkerStart(s) ==
  /\ pending[s] = 1
  /\ wrun[s] = "idle"
  /\ pending' = [pending EXCEPT ![s] = 0]
  /\ wrun' = [wrun EXCEPT ![s] = "encode"]
  /\ last' = Step("worker_start", s, 0)
  /\ UNCHANGED <<regVars, lifeVars, battVars, ledVars, ffVars, outbuf, lastSent,
                 lastBy, enqSnap, muts, defer_initialization, susp>>

\* sixaxis_send_output_report in the worker: build the report in the buffer
WorkerEncode(s) ==
  /\ wrun[s] = "encode"
  /\ outbuf' = [outbuf EXCEPT ![s] = EncodeReport(FlushSource(s))]
  /\ wrun' = [wrun EXCEPT ![s] = "send"]
  /\ last' = Step("worker_encode", s, 0)
  /\ UNCHANGED <<regVars, lifeVars, battVars, ledVars, ffVars, pending, lastSent,
                 lastBy, enqSnap, muts, defer_initialization, susp>>

\* mutant: a failed transmission queues the work again
AfterSend_retry(p, ret) == IF ret < 0 THEN 1 ELSE p

\* what the worker does after hid_hw_raw_request returned ret: the result is
\* not looked at, the worker returns and nothing is queued again
AfterSend(p, ret) == p

\* sixaxis_send_output_report in the worker: hid_hw_raw_request and return
WorkerSend(s, ret) ==
  /\ wrun[s] = "send"
  /\ lastSent' = [lastSent EXCEPT ![s] = outbuf[s]]
  /\ lastBy' = [lastBy EXCEPT ![s] = "worker"]
  /\ wrun' = [wrun EXCEPT ![s] = "idle"]
  /\ pending' = [pending EXCEPT ![s] = AfterSend(@, ret)]
  /\ last' = Step("worker_send", s, ret)
  /\ UNCHANGED <<regVars, lifeVars, battVars, ledVars, ffVars, outbuf, enqSnap, muts,
                 defer_initialization, susp>>

\* ------------------------------------------------------- suspend / resume
\* sony_suspend: stop the rumble and call sony_send_output_report directly
Suspend(s) ==
  /\ pc[s] = "operational"
  /\ susp[s] = "none"
  /\ left' = [left EXCEPT ![s] = 0]
  /\ right' = [right EXCEPT ![s] = 0]
  /\ UNCHANGED ff_pos
  /\ susp' = [susp EXCEPT ![s] =
               IF send_output_report[s] # "NULL" THEN "encode" ELSE "suspended"]
  /\ last' = Step("suspend", s, 0)
  /\ UNCHANGED <<regVars, lifeVars, battVars, ledVars, workVars, defer_initialization>>

\* sixaxis_send_output_report in the suspend context: build the report
SuspendEncode(s) ==
  /\ susp[s] = "encode"
  /\ outbuf' = [outbuf EXCEPT ![s] = EncodeReport(DevState(s))]
  /\ susp' = [susp EXCEPT ![s] = "send"]
  /\ last' = Step("suspend_encode", s, 0)
  /\ UNCHANGED <<regVars, lifeVars, battVars, ledVars, ffVars, pending, wrun, lastSent,
                 lastBy, enqSnap, muts, defer_initialization>>

\* sixaxis_send_output_report in the suspend context: send and return
SuspendSend(s) ==
  /\ susp[s] = "send"
  /\ lastSent' = [lastSent EXCEPT ![s] = outbuf[s]]
  /\ lastBy' = [lastBy EXCEPT ![s] = "suspend"]
  /\ susp' = [susp EXCEPT ![s] = "suspended"]
  /\ last' = Step("suspend_send", s, 0)
  /\ UNCHANGED <<regVars, lifeVars, battVars, ledVars, ffVars, pending, wrun, outbuf,
                 enqSnap, muts, defer_initialization>>

\* sony_resume
Resume(s) ==
  /\ pc[s] = "operational"
  /\ susp[s] = "suspended"
  /\ defer_initialization' = [defer_initialization EXCEPT ![s] =
       IF Has(quirks[s], SIXAXIS_CONTROLLER_USB) THEN 1 ELSE @]
  /\ susp' = [susp EXCEPT ![s] = "none"]
  /\ last' = Step("resume", s, 0)
  /\ UNCHANGED <<regVars, lifeVars, battVars, ledVars, ffVars, workVars>>

\* ------------------------------------------------------------ input path
\* an input report: bytes 0..size-1
MkFrame(size, id, b1, batt, acc) ==
  [i \in 0..(size - 1) |->
     IF i = 0 THEN id
     ELSE IF i = 1 THEN b1
     ELSE IF i = 30 THEN batt
     ELSE IF i >= 41 /\ i <= 48 THEN acc[i - 40]
     ELSE 0]

\* the size of the report rd
FrameSize(rd) == Cardinality(DOMAIN rd)

\* rd[i]; an index past the delivered bytes reads whatever follows the report
\* in memory, the byte oob
Rd(rd, size, i, oob) == IF i < size THEN rd[i] ELSE oob

\* swap(rd[i], rd[j])
Swap(rd, i, j) == [rd EXCEPT ![i] = rd[j], ![j] = rd[i]]

\* the four swaps of sony_raw_event
SwapAcc(rd) == Swap(Swap(Swap(Swap(rd, 41, 42), 43, 44), 45, 46), 47, 48)

\* static const u8 sixaxis_battery_capacity[]
sixaxis_battery_capacity == <<0, 1, 25, 50, 75, 100>>

\* mutant: the byte indexes the table from 1
ParseCapacity_off_by_one(b) ==
  IF b >= 238 THEN 100
  ELSE sixaxis_battery_capacity[IF b = 0 THEN 1 ELSE IF b <= 6 THEN b ELSE 6]

\* sixaxis_parse_report: battery capacity and status for the byte rd[30]
ParseCapacity(b) ==
  IF b >= 238 THEN 100 ELSE sixaxis_battery_capacity[(IF b <= 5 THEN b ELSE 5) + 1]
\* a decoder that has no status for a battery that is not on the charger
ParseStatus_no_discharging(b) ==
  IF b >= 238
  THEN (IF b % 2 = 1 THEN POWER_SUPPLY_STATUS_FULL ELSE POWER_SUPPLY_STATUS_CHARGING)
  ELSE POWER_SUPPLY_STATUS_UNKNOWN

ParseStatus(b) ==
  IF b >= 238
  THEN (IF b % 2 = 1 THEN POWER_SUPPLY_STATUS_FULL ELSE POWER_SUPPLY_STATUS_CHARGING)
  ELSE POWER_SUPPLY_STATUS_DISCHARGING

SIXAXIS_INPUT_REPORT_ACC_X_OFFSET == 41

\* sixaxis_parse_report: the three values reported on ABS_X, ABS_Y, ABS_Z
ParseAxes(rd, size, oob) ==
  LET offset == SIXAXIS_INPUT_REPORT_ACC_X_OFFSET
      x == (Rd(rd, size, offset + 1, oob) * 256 + Rd(rd, size, offset, oob)) - 511
      y == 511 - (Rd(rd, size, offset + 35, oob) * 256 + Rd(rd, size, offset + 4, oob))
      z == 511 - (Rd(rd, size, offset + 3, oob) * 256 + Rd(rd, size, offset + 2, oob))
  IN <<x, y, z>>

\* the indexes of rd that sony_raw_event uses for a report it decodes: rd[0]
\* and rd[1] of its tests and the four pairs it swaps
RawEventIndexes == {0, 1} \cup {41, 42, 43, 44, 45, 46, 47, 48}

\* the indexes of rd that sixaxis_parse_report uses: the battery byte and the
\* high and the low byte of X, of Y and of Z
ParseIndexes ==
  LET offset == SIXAXIS_INPUT_REPORT_ACC_X_OFFSET
  IN {30} \cup {offset + 1, offset} \cup {offset + 35, offset + 4}
          \cup {offset + 3, offset + 2}

\* mutant: a longer report is decoded as well
IsMotionReport_or_longer(s, rd, size) == IsSixaxis(s) /\ rd[0] = 1 /\ size >= MOTION_SIZE

\* the frame is one that sony_raw_event hands to sixaxis_parse_report
IsMotionReport(s, rd, size) == IsSixaxis(s) /\ rd[0] = 1 /\ size = MOTION_SIZE

\* mutant: no report is rejected as spurious
IsSpurious_never(s, rd, size) == FALSE

\* mutant: the report is rejected whatever the device
IsSpurious_any_device(s, rd, size) == rd[0] = 1 /\ size = MOTION_SIZE /\ rd[1] = 255

\* the frame is the spurious one that sony_raw_event rejects
IsSpurious(s, rd, size) == IsMotionReport(s, rd, size) /\ rd[1] = 255

\* mutant: the latch test is made before the spurious report is rejected
ClearsLatch_any(s, rd, size) == TRUE

\* the frame makes sony_raw_event go on to the latch test
ClearsLatch(s, rd, size) == ~IsSpurious(s, rd, size)

\* input reports are delivered while the device is open
Delivering(s) == hw_open[s] \/ pc[s] = "operational"

\* what the ghost record keeps of an input report: its size, id and byte 1,
\* whether it cleared the latch, its battery byte, its bytes 41..48 as they
\* came and the byte read past its end
FrameArg(s, rd, size, oob) ==
  <<size, rd[0], IF size > 1 THEN rd[1] ELSE 0,
    IF defer_initialization[s] # 0 /\ ClearsLatch(s, rd, size) THEN 1 ELSE 0,
    IF size > 30 THEN rd[30] ELSE 0,
    IF size >= MOTION_SIZE THEN [i \in 1..8 |-> rd[40 + i]] ELSE <<>>,
    oob>>

\* sony_raw_event but for the lock: the decoding, the latch and the return
RawEventBody(s, rd, size, oob) ==
  /\ Delivering(s)
  /\ IF IsSpurious(s, rd, size)
     THEN UNCHANGED <<battery_capacity, battery_status, axes, written>>
     ELSE IF IsMotionReport(s, rd, size)
          THEN /\ battery_capacity' = [battery_capacity EXCEPT ![s] = ParseCapacity(rd[30])]
               /\ battery_status' = [battery_status EXCEPT ![s] = ParseStatus(rd[30])]
               /\ axes' = [axes EXCEPT ![s] = ParseAxes(SwapAcc(rd), size, oob)]
               /\ written' = [written EXCEPT ![s] =
                                <<ParseCapacity(rd[30]), ParseStatus(rd[30])>>]
          ELSE UNCHANGED <<battery_capacity, battery_status, axes, written>>
  /\ IF defer_initialization[s] # 0 /\ ClearsLatch(s, rd, size)
     THEN /\ defer_initialization' = [defer_initialization EXCEPT ![s] = 0]
          /\ SonyScheduleWork(s, 0, DevState(s), FALSE)
     ELSE UNCHANGED <<defer_initialization, pending, enqSnap, muts>>
  /\ last' = StepA("raw_event", s, IF IsSpurious(s, rd, size) THEN -EINVAL ELSE 0,
                   FrameArg(s, rd, size, oob))
  /\ UNCHANGED <<regVars, lifeVars, ledVars, ffVars, wrun, outbuf, lastSent, lastBy, susp>>

\* sony_raw_event, with the critical section of sixaxis_parse_report in one step
RawEvent(s, rd, size, oob) ==
  /\ sc_lock[s] = "free"
  /\ parse_pos[s] = Idle
  /\ RawEventBody(s, rd, size, oob)
  /\ UNCHANGED battLock

\* a lock that excludes nobody
LockFree_always(l) == TRUE

\* spin_lock_irqsave(&sc->lock) succeeds when the lock has the value l
LockFree(l) == l = "free"

\* sony_raw_event with a motion report, up to the spin_lock_irqsave of
\* sixaxis_parse_report
ParseLock(s, rd) ==
  /\ Delivering(s)
  /\ parse_pos[s] = Idle
  /\ IsMotionReport(s, rd, FrameSize(rd)) /\ ~IsSpurious(s, rd, FrameSize(rd))
  /\ LockFree(sc_lock[s])
  /\ sc_lock' = [sc_lock EXCEPT ![s] = "parse"]
  /\ parse_pos' = [parse_pos EXCEPT ![s] = [st |-> "locked", rd |-> rd]]
  /\ last' = Step("parse_lock", s, 0)
  /\ UNCHANGED <<regVars, lifeVars, battery_capacity, battery_status, axes, get_pos, got,
                 written, ledVars, ffVars, workVars, defer_initialization, susp>>

\* sixaxis_parse_report: sc->battery_capacity = battery_capacity
ParseWriteCapacity(s) ==
  /\ parse_pos[s].st = "locked"
  /\ battery_capacity' = [battery_capacity EXCEPT ![s] = ParseCapacity(parse_pos[s].rd[30])]
  /\ parse_pos' = [parse_pos EXCEPT ![s].st = "capacity"]
  /\ last' = Step("parse_capacity", s, 0)
  /\ UNCHANGED <<regVars, lifeVars, battery_status, axes, sc_lock, get_pos, got, written,
                 ledVars, ffVars, workVars, defer_initialization, susp>>

\* sixaxis_parse_report: sc->battery_status = battery_status, the unlock and
\* the rest of sony_raw_event
ParseWriteStatus(s) ==
  /\ parse_pos[s].st = "capacity"
  /\ RawEventBody(s, parse_pos[s].rd, FrameSize(parse_pos[s].rd), 0)
  /\ sc_lock' = [sc_lock EXCEPT ![s] = "free"]
  /\ parse_pos' = [parse_pos EXCEPT ![s] = Idle]
  /\ UNCHANGED <<get_pos, got>>

\* the power supply of the session is registered
BatteryRegistered(s) == IsSixaxis(s) /\ pc[s] \in {"a_ff", "operational"}

\* sony_battery_get_property up to its spin_lock_irqsave
GetLock(s) ==
  /\ BatteryRegistered(s)
  /\ get_pos[s] = Idle
  /\ LockFree(sc_lock[s])
  /\ sc_lock' = [sc_lock EXCEPT ![s] = "get"]
  /\ get_pos' = [get_pos EXCEPT ![s] = [st |-> "locked", capacity |-> 0]]
  /\ last' = Step("get_lock", s, 0)
  /\ UNCHANGED <<regVars, lifeVars, battery_capacity, battery_status, axes, parse_pos,
                 got, written, ledVars, ffVars, workVars, defer_initialization, susp>>

\* sony_battery_get_property: battery_capacity = sc->battery_capacity
GetReadCapacity(s) ==
  /\ get_pos[s].st = "locked"
  /\ get_pos' = [get_pos EXCEPT ![s] = [st |-> "capacity", capacity |-> battery_capacity[s]]]
  /\ last' = Step("get_capacity", s, 0)
  /\ UNCHANGED <<regVars, lifeVars, battery_capacity, battery_status, axes, sc_lock,
                 parse_pos, got, written, ledVars, ffVars, workVars,
                 defer_initialization, susp>>

\* sony_battery_get_property: battery_status = sc->battery_status, the unlock
\* and the return of the property asked for
GetReadStatus(s) ==
  /\ get_pos[s].st = "capacity"
  /\ got' = [got EXCEPT ![s] = <<get_pos[s].capacity, battery_status[s]>>]
  /\ sc_lock' = [sc_lock EXCEPT ![s] = "free"]
  /\ get_pos' = [get_pos EXCEPT ![s] = Idle]
  /\ last' = Step("get_property", s, 0)
  /\ UNCHANGED <<regVars, lifeVars, battery_capacity, battery_status, axes, parse_pos,
                 written, ledVars, ffVars, workVars, defer_initialization, susp>>

\* ------------------------------------------------------ inputs of the runs
OobBytes == {0, 255}
LedValues == {0, 1}
BlinkInputs == {<<0, 0>>, <<100, 0>>}
RumbleInputs == {<<0, 0>>, <<512, 256>>}
SendResults == {0, -EINVAL}
Acc0 == <<1, 2, 3, 0, 4, 0, 0, 0>>

\* the input reports of the runs: a motion report, the spurious report, a short
\* report and a 49-byte report with another id
TestFrames ==
  {MkFrame(MOTION_SIZE, 1, 0, 3, Acc0), MkFrame(MOTION_SIZE, 1, 255, 0, Acc0),
   MkFrame(10, 1, 0, 0, Acc0), MkFrame(MOTION_SIZE, 2, 0, 3, Acc0)}

\* input reports with byte 1 = 0xFF and others, of 10, 49 and 50 bytes, with
\* report id 1 and 2
InputFrames ==
  {MkFrame(MOTION_SIZE, 1, 0, 3, Acc0), MkFrame(MOTION_SIZE, 1, 255, 0, Acc0),
   MkFrame(10, 1, 255, 0, Acc0), MkFrame(MOTION_SIZE, 2, 255, 0, Acc0),
   MkFrame(50, 1, 0, 0, Acc0), MkFrame(10, 2, 0, 0, Acc0)}

\* motion reports with every value of the battery byte
BatteryFrames == {MkFrame(MOTION_SIZE, 1, 0, b, Acc0) : b \in 0..255}

\* motion reports with small, with distinct and with the largest accelerometer
\* bytes
AxisFrames ==
  {MkFrame(MOTION_SIZE, 1, 0, b, acc) :
     b \in {0, 3, 238}, acc \in {Acc0, <<1, 2, 3, 4, 5, 6, 7, 8>>,
                                  <<255, 255, 255, 255, 255, 255, 255, 255>>}}

\* motion reports of a discharging and of a charging battery
ReaderFrames == {MkFrame(MOTION_SIZE, 1, 0, 3, Acc0), MkFrame(MOTION_SIZE, 1, 0, 238, Acc0)}

SixaxisVariants == {SIXAXIS_CONTROLLER_USB, SIXAXIS_CONTROLLER_BT}

AllFails == {"id", "alloc", "oper", "leds", "batt", "ff"}

\* the outcomes of the attach step named step when fails are the steps that
\* may fail in this run
Oks(step, fails) == IF step \in fails THEN BOOLEAN ELSE {TRUE}

\* the steps of sony_input_configured for session s
Attach(s, variants, macs, fails) ==
  \/ \E q \in variants : Probe(s, q)
  \/ \E ok \in Oks("id", fails) : SetDeviceId(s, ok)
  \/ \E m \in macs : CheckAdd(s, m)
  \/ \E ok \in Oks("alloc", fails) : AllocateOutputReport(s, ok)
  \/ \E ok \in Oks("oper", fails) : SetOperational(s, ok)
  \/ \E ok \in Oks("leds", fails) : LedsInit(s, IF ok THEN MAX_LEDS ELSE 1)
  \/ \E ok \in Oks("batt", fails) : BatteryProbe(s, ok)
  \/ \E ok \in Oks("ff", fails) : InitFF(s, ok)

\* the steps of sony_remove and of the err_stop path for session s
Detach(s) ==
  \/ Remove(s)
  \/ CancelWork(s)
  \/ CancelSync(s)
  \/ RemoveDevList(s)
  \/ ReleaseDeviceId(s)
  \/ Unbind(s)

Lifecycle(s, variants, macs, fails) == Attach(s, variants, macs, fails) \/ Detach(s)

\* another controller registers its address and goes no further in this run
Rival(s, q, m) ==
  \/ Probe(s, q)
  \/ SetDeviceId(s, TRUE)
  \/ (quirks[s] = q /\ CheckAdd(s, m))

\* sony_set_device_id of a controller that the run does not follow further:
\* it takes the next id of the pool and keeps it
OtherSetDeviceId ==
  /\ Cardinality(ida) < MaxOthers
  /\ ida' = ida \cup {ida_alloc(ida)}
  /\ last' = Step("set_device_id", 0, 0)
  /\ UNCHANGED <<sony_device_list, dev_list_lock, lifeVars, battVars, ledVars, ffVars,
                 workVars,
                 defer_initialization, susp>>

\* one controller or guitar attached and detached while other controllers
\* hold ids of the pool
NextIds ==
  \/ OtherSetDeviceId
  \/ Lifecycle(1, Variants, {0, 1}, {})

SpecIds == Init /\ [][NextIds]_vars

\* one controller attached and detached beside the entry of another one, with
\* further calls of sony_remove_dev_list and sony_release_device_id after its own
NextRelease ==
  \/ Lifecycle(1, SixaxisVariants, {0, 1}, {"alloc"})
  \/ Rival(2, SIXAXIS_CONTROLLER_USB, 2)
  \/ RemoveDevListAgain(1)
  \/ ReleaseDeviceIdAgain(1)

SpecRelease == Init /\ [][NextRelease]_vars

\* attach and detach of several controllers
NextReg == \E s \in Sessions : Lifecycle(s, SixaxisVariants, {0} \cup Macs, {"id", "ff"})

SpecReg == Init /\ [][NextReg]_vars

\* the consumer calls that go through the state worker
Mutators(s, blinks, rumbles) ==
  \/ \E d \in blinks : BlinkSet(s, 0, d[1], d[2])
  \/ \E r \in rumbles : PlayEffect(s, r[1], r[2])

Worker(s) ==
  \/ WorkerStart(s)
  \/ WorkerEncode(s)
  \/ \E ret \in SendResults : WorkerSend(s, ret)

Input(s, frames) == \E rd \in frames : RawEvent(s, rd, FrameSize(rd), 0)

\* one controller or guitar attached and detached, with every failure of attach,
\* while its consumers, its input reports and its worker run; a second
\* controller with the same address is attached and detached beside it
NextLife ==
  \/ Lifecycle(1, Variants, {0, 1}, AllFails)
  \/ Mutators(1, {<<100, 0>>}, {<<512, 256>>})
  \/ Worker(1)
  \/ Input(1, {MkFrame(MOTION_SIZE, 1, 0, 3, Acc0)})
  \/ Rival(2, SIXAXIS_CONTROLLER_USB, 1)

SpecLife == Init /\ [][NextLife]_vars

PM(s) ==
  \/ Suspend(s)
  \/ SuspendEncode(s)
  \/ SuspendSend(s)
  \/ Resume(s)

\* one attached controller: its LED, blink and rumble calls, its input reports
\* and its worker
NextSched ==
  \/ Attach(1, SixaxisVariants, {1}, {})
  \/ Mutators(1, BlinkInputs, RumbleInputs)
  \/ Worker(1)
  \/ Input(1, TestFrames)

SpecSched == Init /\ [][NextSched]_vars

\* one attached controller and its LED brightness calls
NextLed ==
  \/ Attach(1, SixaxisVariants, {1}, {})
  \/ \E n \in {0, 3}, v \in LedValues : SetLed(1, n, v)
  \/ BlinkSet(1, 0, 100, 0)
  \/ Worker(1)
  \/ Input(1, {MkFrame(MOTION_SIZE, 1, 0, 3, Acc0)})

SpecLed == Init /\ [][NextLed]_vars

\* the scheduler with a worker thread that is scheduled fairly
NextLive ==
  \/ Attach(1, SixaxisVariants, {1}, {})
  \/ Mutators(1, {<<100, 0>>}, RumbleInputs)
  \/ Worker(1)
  \/ Input(1, {MkFrame(MOTION_SIZE, 1, 0, 3, Acc0)})

SpecLive == Init /\ [][NextLive]_vars /\ WF_vars(Worker(1))

\* the input path of one attached controller or guitar, with its blink and
\* rumble calls and its worker
NextInput ==
  \/ Lifecycle(1, Variants, {0, 1}, {})
  \/ Mutators(1, {<<100, 0>>}, {<<512, 256>>})
  \/ Worker(1)
  \/ Input(1, InputFrames)

SpecInput == Init /\ [][NextInput]_vars

\* the battery decoding of one attached controller
NextDecode ==
  \/ Attach(1, SixaxisVariants, {1}, {})
  \/ Input(1, BatteryFrames)

SpecDecode == Init /\ [][NextDecode]_vars

\* the sensor decoding of one attached controller; the byte that
\* sixaxis_parse_report reads past the end of the report is any of OobBytes
NextAxes ==
  \/ Attach(1, SixaxisVariants, {1}, {})
  \/ \E rd \in AxisFrames, oob \in OobBytes : RawEvent(1, rd, FrameSize(rd), oob)

SpecAxes == Init /\ [][NextAxes]_vars

\* the steps of sixaxis_parse_report around its critical section
ParseSteps(s, frames) ==
  \/ \E rd \in frames : ParseLock(s, rd)
  \/ ParseWriteCapacity(s)
  \/ ParseWriteStatus(s)

\* the steps of sony_battery_get_property
Getter(s) ==
  \/ GetLock(s)
  \/ GetReadCapacity(s)
  \/ GetReadStatus(s)

\* one attached controller decoding its reports while its battery is read
NextBatt ==
  \/ Attach(1, SixaxisVariants, {1}, {})
  \/ ParseSteps(1, ReaderFrames)
  \/ Getter(1)

SpecBatt == Init /\ [][NextBatt]_vars

\* two rumble requests, each for one motor only
RaceRumbles == {<<512, 0>>, <<0, 256>>}

\* the steps of sony_play_effect
PlaySteps(s, rumbles) ==
  \/ \E r \in rumbles : PlayWriteLeft(s, r[1], r[2])
  \/ PlayWriteRight(s)

\* one attached controller whose rumble is set while its worker runs
NextRace ==
  \/ Attach(1, SixaxisVariants, {1}, {})
  \/ PlaySteps(1, RaceRumbles)
  \/ Worker(1)

SpecRace == Init /\ [][NextRace]_vars

\* the LED requests of the runs of the bitmap byte, LED and value: LED 0,
\* which the attach switches on, is switched off, every other LED is switched on
BitmapInputs == {<<0, 0>>, <<1, 1>>, <<2, 1>>, <<3, 1>>}

\* one attached Bluetooth controller: its LEDs are switched, and a rumble
\* request makes the worker build and send the output report
NextBitmap ==
  \/ Attach(1, {SIXAXIS_CONTROLLER_BT}, {1}, {})
  \/ \E b \in BitmapInputs : SetLed(1, b[1], b[2])
  \/ PlayEffect(1, 512, 256)
  \/ Worker(1)

SpecBitmap == Init /\ [][NextBitmap]_vars

\* the blink requests of the runs of the timing bytes: LED and delays in ms
TimingInputs == {<<0, 100, 0>>, <<1, 300, 400>>, <<3, 0, 200>>}

\* one attached Bluetooth controller: its LEDs are made to blink, the
\* blinking of LED 0 is stopped again, and the worker builds and sends the
\* output report
NextTiming ==
  \/ Attach(1, {SIXAXIS_CONTROLLER_BT}, {1}, {})
  \/ \E b \in TimingInputs : BlinkSet(1, b[1], b[2], b[3])
  \/ SetLed(1, 0, 0)
  \/ Worker(1)

SpecTiming == Init /\ [][NextTiming]_vars

\* delays in ms asked of sony_led_blink_set: zero, below one decisecond, a
\* usual one, the largest that is kept and one above it
BlinkMs == {0, 5, 100, 2550, 3000}

\* one attached controller: LED 0 is made to blink with every pair of
\* BlinkMs, and switched on and off, which stops the blinking
NextBlink ==
  \/ Attach(1, SixaxisVariants, {1}, {})
  \/ \E on_ms \in BlinkMs, off_ms \in BlinkMs : BlinkSet(1, 0, on_ms, off_ms)
  \/ \E v \in LedValues : SetLed(1, 0, v)

SpecBlink == Init /\ [][NextBlink]_vars

\* one attached controller: LEDs 0 and 1 are made to blink and are switched
\* on and off
NextStop ==
  \/ Attach(1, SixaxisVariants, {1}, {})
  \/ \E n \in {0, 1}, d \in BlinkInputs : BlinkSet(1, n, d[1], d[2])
  \/ \E n \in {0, 1}, v \in LedValues : SetLed(1, n, v)

SpecStop == Init /\ [][NextStop]_vars

\* the guitar or a controller attached and detached, with failures of attach,
\* across suspend and resume, while its consumers, its input reports
\* and its worker run and a controller holds an id and an entry of the registry
NextGuitar ==
  \/ Lifecycle(1, {GH_GUITAR_CONTROLLER, SIXAXIS_CONTROLLER_BT}, {0, 1}, {"alloc", "ff"})
  \/ Mutators(1, {<<100, 0>>}, {<<512, 256>>})
  \/ Worker(1)
  \/ Input(1, {MkFrame(MOTION_SIZE, 1, 0, 3, Acc0)})
  \/ PM(1)
  \/ Rival(2, SIXAXIS_CONTROLLER_USB, 1)

SpecGuitar == Init /\ [][NextGuitar]_vars

\* one attached controller across suspend and resume
NextPM ==
  \/ Attach(1, SixaxisVariants, {1}, {})
  \/ Mutators(1, {<<100, 0>>}, RumbleInputs)
  \/ Worker(1)
  \/ Input(1, {MkFrame(MOTION_SIZE, 1, 0, 3, Acc0), MkFrame(MOTION_SIZE, 1, 255, 0, Acc0),
               MkFrame(10, 1, 0, 0, Acc0)})
  \/ PM(1)

SpecPM == Init /\ [][NextPM]_vars

\* ------------------------------------------------------------------ claims
IsBt(q) == Has(q, SONY_BT_DEVICE)

\* session s has just gone through sony_check_add with an address
JustRegistered(s) ==
  last.op = "check_add" /\ last.s = s /\ IsSixaxis(s) /\ mac_address[s] # 0

\* another session's entry with the address of s, of the same (same = TRUE) or
\* of the other classification
EntryWithAddress(s, same) ==
  \E e \in Sessions \ {s} :
     /\ InList(e)
     /\ mac_address[e] = mac_address[s]
     /\ (IsBt(quirks[e]) = IsBt(quirks[s])) = same

\* C1 as stated: registering an address that is already in the registry with
\* the same is-Bluetooth classification fails with -EEXIST and leaves the
\* registry unchanged.
C1_AsStated ==
  \A s \in Sessions :
     (JustRegistered(s) /\ EntryWithAddress(s, TRUE))
        => (last.ret = -EEXIST /\ ~InList(s))

\* C1 amended: registering an address that is already in the registry with the
\* same is-Bluetooth classification succeeds with the duplicate flag (1): the
\* attach goes on, and the registry is left unchanged (no entry for the session).
C1_SameKindIsDuplicate ==
  \A s \in Sessions :
     (JustRegistered(s) /\ EntryWithAddress(s, TRUE))
        => /\ last.ret = 1
           /\ append_dev_id[s] = 1
           /\ ~InList(s)
           /\ list_node[s] = "null"
           /\ pc[s] = "a_alloc"

C1_Witness ==
  \E s \in Sessions : JustRegistered(s) /\ EntryWithAddress(s, TRUE)

\* C2 as stated: registering an address that is already in the registry with
\* the other classification succeeds with the duplicate flag (1), so both the
\* USB and the Bluetooth session attach.
C2_AsStated ==
  \A s \in Sessions :
     (JustRegistered(s) /\ EntryWithAddress(s, FALSE))
        => (last.ret = 1 /\ pc[s] = "a_alloc")

\* C2 amended: registering an address that is already in the registry with the
\* other classification fails with -EEXIST: the attach of the second session
\* takes the err_stop path and the session gets no entry in the registry.
C2_OtherKindIsRejected ==
  \A s \in Sessions :
     (JustRegistered(s) /\ EntryWithAddress(s, FALSE))
        => /\ last.ret = -EEXIST
           /\ append_dev_id[s] = -EEXIST
           /\ ~InList(s)
           /\ pc[s] = "c_cancel"
           /\ failing[s]

C2_Witness ==
  \E s \in Sessions : JustRegistered(s) /\ EntryWithAddress(s, FALSE)

\* the session is between sony_set_device_id and the end of its detach
HoldsSc(s) == pc[s] \notin {"unbound", "a_id"}

\* C8: no two sessions attached at the same time hold the same non-negative
\* device_id, and an id a session holds is allocated in the pool.
C8_UniqueIds ==
  \A s \in Sessions :
     (HoldsSc(s) /\ device_id[s] >= 0)
        => /\ device_id[s] \in ida
           /\ \A t \in Sessions \ {s} :
                 (HoldsSc(t) /\ device_id[t] >= 0) => device_id[t] # device_id[s]

\* two sessions hold ids, the lower id having been released and allocated again
C8_Witness ==
  \E s \in Sessions, t \in Sessions :
     /\ pc[s] = "operational" /\ pc[t] = "operational"
     /\ device_id[s] = 1 /\ device_id[t] = 0
     /\ last.op = "input_configured" /\ last.s = t

\* the session is attached, its worker is usable and the latch is cleared
Operational(s) ==
  /\ pc[s] = "operational"
  /\ state_worker_initialized[s] = 1
  /\ defer_initialization[s] = 0

\* C3 as stated: a set_led call that changes the LED state of an Operational
\* session transmits nothing in the caller's context and leaves one flush
\* queued, so that K calls are coalesced into one transmission by the worker.
C3_AsStated ==
  \A s \in Sessions :
     (last.op = "set_led" /\ last.s = s /\ last.ret = 1 /\ Operational(s))
        => (lastBy[s] # "set_led" /\ pending[s] = 1)
\* a step of handler op on session s has just been taken
Did(op, s) == last.op = op /\ last.s = s
IsMutator(op) == op \in {"set_blink", "set_rumble"}

\* C4: at most one flush of a session is queued, a mutation made while one is
\* queued queues no second one, and the flush, when it runs, encodes the device
\* state as it is at that moment (the values of the last mutation, not those
\* at the time it was queued) and transmits what it encoded, once, without
\* queueing itself again.
C4_FlushSendsCurrent ==
  /\ [](\A s \in Sessions : pending[s] \in {0, 1})
  /\ [][\A s \in Sessions :
          /\ (IsMutator(last'.op) /\ last'.s = s /\ pending[s] = 1)
                => pending'[s] = 1
          /\ (last'.op = "worker_encode" /\ last'.s = s)
                => outbuf'[s] = EncodeReport([led_state |-> led_state'[s],
                                              led_delay_on |-> led_delay_on'[s],
                                              led_delay_off |-> led_delay_off'[s],
                                              left |-> left'[s],
                                              right |-> right'[s]])
          /\ (last'.op = "worker_send" /\ last'.s = s)
                => /\ lastSent'[s] = outbuf[s]
                   /\ lastBy'[s] = "worker"
                   /\ pending'[s] = pending[s]
                   /\ wrun'[s] = "idle"]_vars

\* a flush has sent its report after two or more mutations were made while it
\* was queued, and the report is not the one of the state at queueing time
C4_Witness ==
  \E s \in Sessions :
     /\ Did("worker_send", s)
     /\ pending[s] = 0
     /\ muts[s] >= 1
     /\ lastSent[s] = EncodeReport(DevState(s))
     /\ lastSent[s] # EncodeReport(enqSnap[s])

\* C5 as stated: the suspend path and the worker are never inside
\* sixaxis_send_output_report of one session at the same time, so that the
\* output buffer is written by one context at a time.
C5_AsStated ==
  \A s \in Sessions : ~(wrun[s] # "idle" /\ susp[s] \in {"encode", "send"})

\* C6: a mutation made on an Operational session while a flush is queued or
\* running is followed by a run of the worker that encodes the device state
\* after that mutation; what a run has encoded stays in the buffer until that
\* run transmits it, which it does.
C6_NoLostUpdate ==
  /\ \A s \in Sessions :
        (IsMutator(last.op) /\ last.s = s /\ last.ret = 1 /\ Operational(s)
           /\ (pending[s] = 1 \/ wrun[s] # "idle"))
          ~> (Did("worker_encode", s) /\ outbuf[s] = EncodeReport(DevState(s)))
  /\ \A s \in Sessions :
        Did("worker_encode", s) ~> (Did("worker_send", s) /\ lastSent[s] = outbuf[s])
  /\ [][\A s \in Sessions : wrun[s] = "send" => outbuf'[s] = outbuf[s]]_vars

\* a mutation has just been made while the worker was between encoding and
\* sending, and the report in the buffer does not carry it
C6_Witness ==
  \E s \in Sessions :
     /\ IsMutator(last.op) /\ last.s = s /\ last.ret = 1
     /\ Operational(s)
     /\ wrun[s] = "send"
     /\ pending[s] = 1
     /\ outbuf[s] # EncodeReport(DevState(s))

\* C7: on detach the work is cancelled and waited for before the registry
\* entry is removed and the id released: while the cancellation is under way
\* the session still has its entry and its id, and from its completion on no
\* flush of the session is queued or running.
C7_CancelBeforeRelease ==
  \A s \in Sessions :
     ~failing[s] =>
        /\ pc[s] \in {"c_list", "c_id", "gone"}
              => (pending[s] = 0 /\ wrun[s] = "idle")
        /\ pc[s] \in {"c_cancel", "c_sync"}
              => /\ list_node[s] = "linked" => InList(s)
                 /\ device_id[s] >= 0 => device_id[s] \in ida

\* detach waits for a running flush, with another one queued behind it
C7_Witness ==
  \E s \in Sessions :
     /\ ~failing[s]
     /\ pc[s] = "c_sync"
     /\ wrun[s] = "send"
     /\ pending[s] = 1
     /\ InList(s)
     /\ device_id[s] >= 0

\* C9: after a failed attach the session holds no id, the id it held is back
\* in the pool, it has no registry entry, and no flush of it is queued or
\* running; the entries and ids of the other sessions are untouched, also
\* when the failed session had none of its own to release.
C9_FailedAttachLeavesNothing ==
  \A s \in Sessions :
     pc[s] = "failed" =>
        /\ device_id[s] < 0
        /\ ~InList(s)
        /\ pending[s] = 0
        /\ wrun[s] = "idle"
        /\ \A i \in ida : \E t \in Sessions \ {s} : HoldsSc(t) /\ device_id[t] = i
        /\ \A t \in Sessions \ {s} :
              /\ list_node[t] = "linked" => InList(t)
              /\ (HoldsSc(t) /\ device_id[t] >= 0) => device_id[t] \in ida

\* an attach has failed after the session had its id and its registry entry
\* and after its worker had sent a report
C9_Witness ==
  \E s \in Sessions :
     /\ pc[s] = "failed"
     /\ list_node[s] = "poison"
     /\ lastBy[s] = "worker"
     /\ state_worker_initialized[s] = 0

\* an attach has failed because the address is registered by a session of the
\* other connection kind
C9_WitnessRejected ==
  \E s \in Sessions :
     /\ pc[s] = "failed"
     /\ list_node[s] = "null"
     /\ mac_address[s] # 0
     /\ \E t \in Sessions \ {s} : InList(t) /\ mac_address[t] = mac_address[s]

\* C10 as stated: the initialisation latch of a session is cleared only by an
\* input report that is decoded, that is a motion report of a sixaxis session
\* with id 0x01, length 49 and byte 1 other than 0xFF.
C10_AsStated ==
  [][\A s \in Sessions :
        (defer_initialization[s] # 0 /\ defer_initialization'[s] = 0 /\ pc'[s] = pc[s])
           => /\ last'.op = "raw_event" /\ last'.s = s
              /\ last'.arg[1] = MOTION_SIZE
              /\ last'.arg[2] = 1
              /\ last'.arg[3] # 255]_vars

\* C10: while the latch is set nothing but an input report that sony_raw_event
\* accepts (returns 0 for) queues a flush or clears the latch; such a report,
\* whatever its id and length, clears the latch and leaves one flush queued; a
\* rejected report changes neither; and an input report that finds the latch
\* cleared queues nothing.
C10_LatchClearedByAcceptedReport ==
  [][\A s \in Sessions :
        LET accepted == last'.op = "raw_event" /\ last'.s = s /\ last'.ret = 0
            rejected == last'.op = "raw_event" /\ last'.s = s /\ last'.ret # 0
        IN /\ (defer_initialization[s] # 0 /\ defer_initialization'[s] = 0
                 /\ pc'[s] = pc[s]) => accepted
           /\ (defer_initialization[s] # 0 /\ pending[s] = 0 /\ pending'[s] # 0)
                 => accepted
           /\ (accepted /\ defer_initialization[s] # 0)
                 => (defer_initialization'[s] = 0 /\ pending'[s] = 1)
           /\ rejected
                 => (defer_initialization'[s] = defer_initialization[s]
                       /\ pending'[s] = pending[s])
           /\ ((accepted \/ rejected) /\ defer_initialization[s] = 0)
                 => (defer_initialization'[s] = 0 /\ pending'[s] = pending[s])]_vars

\* an input report that is not 49 bytes long has cleared the latch and queued
\* the flush
C10_Witness ==
  \E s \in Sessions :
     /\ Did("raw_event", s)
     /\ last.ret = 0
     /\ last.arg[1] # MOTION_SIZE
     /\ last.arg[4] = 1
     /\ defer_initialization[s] = 0
     /\ pending[s] = 1
\* the values a mutator step has just stored are in the session state
Stored(s) ==
  /\ last.op = "set_rumble" => (left[s] = last.arg[1] /\ right[s] = last.arg[2])
  /\ last.op = "set_blink"
        => /\ led_delay_on[s][last.arg[1]] = last.arg[2]
           /\ led_delay_off[s][last.arg[1]] = last.arg[3]

\* detach or the failure path has begun cancelling the work of the session
Cancelling(s) == pc[s] \in {"c_sync", "c_list", "c_id", "failed", "gone"}

DecodedState(s) ==
  <<battery_capacity[s], battery_status[s], axes[s], led_state[s], led_delay_on[s],
    led_delay_off[s], left[s], right[s]>>

\* the latch and the queued flush of session s
LatchState(s) == <<defer_initialization[s], pending[s]>>

\* C12 as stated: an input report whose byte 1 is 0xFF changes no field of the
\* session state, the latch and the queued flush included, whatever its length
\* and report id and whatever the device.
C12_AsStated ==
  [][\A s \in Sessions :
        (last'.op = "raw_event" /\ last'.s = s /\ last'.arg[3] = 255)
           => (DecodedState(s)' = DecodedState(s) /\ LatchState(s)' = LatchState(s))]_vars

\* C12: an input report whose byte 1 is 0xFF changes neither the battery
\* fields, the axes, the LED state, the blink timing nor the rumble levels,
\* whatever its length and report id and whatever the device; the rejected
\* report (sixaxis, id 0x01, 49 bytes) leaves the latch and the queued flush
\* alone as well, every other such report is accepted and, if the latch is
\* set, clears it and queues a flush.
C12_NoiseLeavesDecodedState ==
  [][\A s \in Sessions :
        (last'.op = "raw_event" /\ last'.s = s /\ last'.arg[3] = 255)
           => /\ DecodedState(s)' = DecodedState(s)
              /\ last'.ret # 0 => LatchState(s)' = LatchState(s)
              /\ last'.ret = 0
                    => /\ defer_initialization'[s] = 0
                       /\ defer_initialization[s] = 0 => pending'[s] = pending[s]
                       /\ defer_initialization[s] # 0 => pending'[s] = 1]_vars

\* the rejected report has been delivered to a session that has a flush queued
\* and has decoded a report and stored blink timing and rumble levels before
C12_Witness ==
  \E s \in Sessions :
     /\ Did("raw_event", s)
     /\ last.arg[3] = 255
     /\ last.ret = -EINVAL
     /\ pending[s] = 1
     /\ battery_status[s] = POWER_SUPPLY_STATUS_DISCHARGING
     /\ led_delay_on[s][0] # 0
     /\ left[s] # 0

\* C13 as stated: an input report whose length is not 49 is accepted and
\* changes nothing: not the decoded state, not the latch, and it queues no
\* flush.
C13_AsStated ==
  [][\A s \in Sessions :
        (last'.op = "raw_event" /\ last'.s = s /\ last'.arg[1] # MOTION_SIZE)
           => /\ last'.ret = 0
              /\ DecodedState(s)' = DecodedState(s)
              /\ LatchState(s)' = LatchState(s)]_vars

\* C13: an input report whose length is not 49 is accepted and changes neither
\* the battery fields, the axes, the LED state, the blink timing nor the
\* rumble levels; if the latch is clear it changes nothing else either and
\* queues no flush, if the latch is set it clears it and queues one flush.
C13_OtherLengthNotDecoded ==
  [][\A s \in Sessions :
        (last'.op = "raw_event" /\ last'.s = s /\ last'.arg[1] # MOTION_SIZE)
           => /\ last'.ret = 0
              /\ DecodedState(s)' = DecodedState(s)
              /\ defer_initialization[s] = 0 => LatchState(s)' = LatchState(s)
              /\ defer_initialization[s] # 0
                    => (defer_initialization'[s] = 0 /\ pending'[s] = 1)]_vars

\* a 50-byte report has been delivered, with the latch clear, to a session
\* that had decoded a report before
C13_Witness ==
  \E s \in Sessions :
     /\ Did("raw_event", s)
     /\ last.arg[1] > MOTION_SIZE
     /\ last.arg[4] = 0
     /\ last.ret = 0
     /\ battery_capacity[s] = 50
     /\ pending[s] = 0

\* C14: sony_raw_event returns -EINVAL exactly for the report of a sixaxis
\* device with id 0x01, 49 bytes and byte 1 = 0xFF, and 0 for every other
\* report; no input report changes the lifecycle position of the session, its
\* registry entry or its id.
C14_RejectsOnlySpurious ==
  [][\A s \in Sessions :
        (last'.op = "raw_event" /\ last'.s = s)
           => /\ last'.ret = (IF /\ Has(quirks[s], SIXAXIS_CONTROLLER)
                                 /\ last'.arg[1] = MOTION_SIZE
                                 /\ last'.arg[2] = 1
                                 /\ last'.arg[3] = 255
                              THEN -EINVAL ELSE 0)
              /\ UNCHANGED <<pc, failing, hw_open, sony_device_list, ida, device_id,
                             list_node, state_worker_initialized>>]_vars

\* a guitar has been delivered a 49-byte report with id 0x01 and byte 1 =
\* 0xFF, which was accepted
C14_Witness ==
  \E s \in Sessions :
     /\ Did("raw_event", s)
     /\ ~IsSixaxis(s)
     /\ last.arg[1] = MOTION_SIZE
     /\ last.arg[2] = 1
     /\ last.arg[3] = 255
     /\ last.ret = 0
     /\ pc[s] = "operational"
\* a motion report of a sixaxis session has just been decoded
Decoded(s) ==
  /\ Did("raw_event", s)
  /\ last.ret = 0
  /\ last.arg[1] = MOTION_SIZE
  /\ last.arg[2] = 1
  /\ Has(quirks[s], SIXAXIS_CONTROLLER)

\* C15: after a motion report with battery byte b is decoded, the capacity is
\* 100 and the status Full (b odd) or Charging (b even) if b >= 0xEE;
\* otherwise the status is Discharging and the capacity is 0, 1, 25, 50, 75
\* for b = 0..4 and 100 for b >= 5; so 3 gives 50 and 9 gives 100.
C15_BatteryDecoding ==
  \A s \in Sessions :
     Decoded(s) =>
        LET b == last.arg[5]
            cap == battery_capacity[s]
            st == battery_status[s]
        IN /\ b \in 0..255
           /\ b >= 238 => /\ cap = 100
                          /\ b % 2 = 1 => st = POWER_SUPPLY_STATUS_FULL
                          /\ b % 2 = 0 => st = POWER_SUPPLY_STATUS_CHARGING
           /\ b < 238 => /\ st = POWER_SUPPLY_STATUS_DISCHARGING
                         /\ b = 0 => cap = 0
                         /\ b = 1 => cap = 1
                         /\ b = 2 => cap = 25
                         /\ b = 3 => cap = 50
                         /\ b = 4 => cap = 75
                         /\ b >= 5 => cap = 100

\* a report with battery byte 9 has been decoded
C15_Witness ==
  \E s \in Sessions :
     /\ Decoded(s)
     /\ last.arg[5] = 9
     /\ battery_capacity[s] = 100
     /\ battery_status[s] = POWER_SUPPLY_STATUS_DISCHARGING
\* the 16-bit value of the bytes i and i + 1 of the report as it came, the
\* first of them the more significant one
Wire16(i) == last.arg[6][i - 40] * 256 + last.arg[6][i - 39]

\* C16 as stated: after any motion report is decoded each of the three axis
\* values lies in -512..511 and the battery capacity is one of 0, 1, 25, 50,
\* 75, 100.
C16_AsStated ==
  \A s \in Sessions :
     Decoded(s) =>
        /\ \A k \in 1..3 : axes[s][k] \in -512..511
        /\ battery_capacity[s] \in {0, 1, 25, 50, 75, 100}

\* C17 as stated: after a motion report is decoded X is the first 16-bit value
\* of the accelerometer block less 511, Y is 511 less the third and Z is 511
\* less the second, each value made of two adjacent bytes of the report.
C17_AsStated ==
  \A s \in Sessions :
     Decoded(s) =>
        axes[s] = <<Wire16(41) - 511, 511 - Wire16(45), 511 - Wire16(43)>>
\* ---------------------------------------------------------------------------
\* the battery pair seen by sony_battery_get_property

\* the pair a reader sees when no report has been decoded since the attach:
\* sony_battery_probe stores the capacity, the status is the zero of the
\* zeroed allocation of sony_probe
AttachDefault == <<100, POWER_SUPPLY_STATUS_UNKNOWN>>

\* C19: whenever sony_battery_get_property returns, the capacity and the
\* status it has read are the attach-time pair if no report was decoded, and
\* otherwise the pair stored by one report (the last one decoded); never
\* the capacity of one report with the status of another
C19_NoTornBatteryRead ==
  \A s \in Sessions :
     Did("get_property", s) =>
        got[s] = IF written[s] = <<>> THEN AttachDefault ELSE written[s]

\* a read that returns the pair of a decoded report
C19_Witness ==
  /\ Did("get_property", 1)
  /\ written[1] = <<50, POWER_SUPPLY_STATUS_DISCHARGING>>
  /\ got[1] = written[1]

\* C20 as stated: every read returns a status among Discharging, Charging,
\* Full and a capacity in 0..100, also before the first decoded report
C20_AsStated ==
  \A s \in Sessions :
     Did("get_property", s) =>
        /\ got[s][2] \in {POWER_SUPPLY_STATUS_DISCHARGING, POWER_SUPPLY_STATUS_CHARGING,
                          POWER_SUPPLY_STATUS_FULL}
        /\ got[s][1] \in 0..100

\* C20: every read returns a capacity in 0..100; the status it returns is
\* Unknown as long as no report has been decoded since the attach, and one of
\* Discharging, Charging, Full once a report has been decoded
C20_StatusUnknownUntilDecoded ==
  \A s \in Sessions :
     Did("get_property", s) =>
        /\ got[s][1] \in 0..100
        /\ written[s] = <<>> => got[s][2] = POWER_SUPPLY_STATUS_UNKNOWN
        /\ written[s] # <<>> =>
              got[s][2] \in {POWER_SUPPLY_STATUS_DISCHARGING, POWER_SUPPLY_STATUS_CHARGING,
                             POWER_SUPPLY_STATUS_FULL}

\* a read made before any report was decoded
C20_Witness ==
  /\ Did("get_property", 1)
  /\ written[1] = <<>>
  /\ got[1] = <<100, POWER_SUPPLY_STATUS_UNKNOWN>>
\* ---------------------------------------------------------------------------
\* the lock around the shared fields

\* C18 as stated, for the rumble levels: the worker builds its report, and
\* sony_play_effect stores each of the two levels, only with sc->lock held
\* by that context, so the worker never reads the levels while a caller of
\* sony_play_effect is between its two stores
C18_AsStated ==
  [][\A s \in Sessions :
        /\ Did("worker_encode", s)' => (sc_lock[s] = "worker" /\ ff_pos[s] = Idle)
        /\ (Did("play_left", s)' \/ Did("set_rumble", s)') => sc_lock[s] = "setter"]_vars
\* ---------------------------------------------------------------------------
\* the capacity before the first report

\* C21: a read of the battery made after the battery was registered and
\* before any report was decoded returns the capacity 100
C21_DefaultCapacity ==
  \A s \in Sessions :
     (Did("get_property", s) /\ written[s] = <<>>) => got[s][1] = 100

\* such a read on a session whose attach has succeeded
C21_Witness ==
  /\ Did("get_property", 1)
  /\ pc[1] = "operational"
  /\ written[1] = <<>>
  /\ got[1][1] = 100
\* ---------------------------------------------------------------------------
\* the LED pattern of the attach

\* C22: once sony_leds_init has run, and as long as no LED is set, a session
\* with device id k >= 0 has the LED pattern of entry k mod 10 of
\* sixaxis_leds; an attached session without id (-1) has all LEDs off
C22_InitialLedPattern ==
  \A s \in Sessions :
     /\ (pc[s] \in {"a_batt", "a_ff", "operational"} /\ device_id[s] >= 0) =>
           \A n \in Leds : led_state[s][n] = sixaxis_leds[(device_id[s] % 10) + 1][n + 1]
     /\ (pc[s] = "operational" /\ device_id[s] = -1) =>
           \A n \in Leds : led_state[s][n] = 0

\* the eleventh id of the pool gets the first entry of the table again
C22_Witness ==
  /\ pc[1] = "operational"
  /\ device_id[1] = 10
  /\ led_state[1][0] = 1 /\ led_state[1][1] = 0 /\ led_state[1][2] = 0 /\ led_state[1][3] = 0
\* ---------------------------------------------------------------------------
\* repeated removal from the registry

\* C23 as stated: a call of sony_remove_dev_list for a session that has no
\* entry in the registry, because it was never inserted or because its entry
\* was already removed, changes nothing
C23_AsStated ==
  [][\A s \in Sessions :
        Did("remove_dev_list_again", s)' => UNCHANGED <<sony_device_list, dev_list_lock>>]_vars
\* ---------------------------------------------------------------------------
\* the id pool

\* the ids held by sessions
HeldIds == {device_id[s] : s \in {t \in Sessions : HoldsSc(t) /\ device_id[t] >= 0}}

\* C24: the pool holds exactly the ids that sessions hold, so it is empty
\* when every session is detached or has failed; an id just allocated is the
\* smallest one not held by another session; the ids in use are therefore
\* always below the number of sessions, and are 0..N-1 whenever all N
\* sessions hold one, whatever attaches and detaches came before
C24_NoIdLeak ==
  /\ ida = HeldIds
  /\ \A i \in ida : i < Cardinality(Sessions)
  /\ \A s \in Sessions :
        (Did("set_device_id", s) /\ last.ret = 0 /\ device_id[s] >= 0) =>
           \A j \in 0..(device_id[s] - 1) :
              \E t \in Sessions \ {s} : HoldsSc(t) /\ device_id[t] = j

\* every session holds an id, and session 1, the last one to complete its
\* attach, holds the lowest: it was given back and allocated again
C24_Witness ==
  /\ \A s \in Sessions : pc[s] = "operational" /\ device_id[s] = s - 1
  /\ Did("input_configured", 1)
  /\ ida = 0..(Cardinality(Sessions) - 1)
\* ---------------------------------------------------------------------------
\* repeated release of the id

\* C25 as stated: a second call of sony_release_device_id for a session is
\* caught as an error and is not a silent no-op: it does not return normally
\* leaving the pool and the id of the session as they were
C25_AsStated ==
  [][\A s \in Sessions :
        Did("release_device_id_again", s)' =>
           ~(last'.ret = 0 /\ UNCHANGED <<ida, device_id>>)]_vars

\* C25: a second call of sony_release_device_id for a session is a silent
\* no-op: it returns normally, the pool and the ids of all sessions are
\* unchanged, also when the id given back is held by another session by then
C25_SecondReleaseIsNoOp ==
  [][\A s \in Sessions :
        Did("release_device_id_again", s)' =>
           (last'.ret = 0 /\ UNCHANGED <<ida, device_id, sony_device_list>>)]_vars

\* a second release made when the id the session gave back belongs to another
\* session
C25_Witness ==
  /\ Did("release_device_id_again", 1)
  /\ device_id[1] = -1
  /\ HoldsSc(2) /\ device_id[2] = 0
  /\ ida = {0}
\* ---------------------------------------------------------------------------
\* the output report

\* the bitmap byte for the LED values ls as the layout describes it: the bit
\* n + 1 for each LED n that is on, and 0x20 when no LED is on (the byte of
\* default_report is 0, so the bits are added to it)
BitmapOf(ls) ==
  GetByte(default_report, OFF_LEDS_BITMAP)
    + (IF ls[0] # 0 THEN 2 ELSE 0) + (IF ls[1] # 0 THEN 4 ELSE 0)
    + (IF ls[2] # 0 THEN 8 ELSE 0) + (IF ls[3] # 0 THEN 16 ELSE 0)
    + (IF \A n \in Leds : ls[n] = 0 THEN 32 ELSE 0)

\* C26: the report the worker has just built carries in its bitmap byte the
\* bit n + 1 exactly for the LEDs n whose stored value is not zero, and the
\* bit 0x20 exactly when the four stored values are zero
C26_LedBitmap ==
  \A s \in Sessions :
     Did("worker_encode", s) =>
        GetByte(outbuf[s], OFF_LEDS_BITMAP) = BitmapOf(led_state[s])

\* a report built with LEDs 1 and 3 on and LEDs 0 and 2 off
C26_Witness ==
  /\ Did("worker_encode", 1)
  /\ led_state[1][0] = 0 /\ led_state[1][1] = 1 /\ led_state[1][2] = 0 /\ led_state[1][3] = 1
  /\ GetByte(outbuf[1], OFF_LEDS_BITMAP) = 20
\* LED n of the state blinks: one of its two delays is not zero
Blinks(s, n) == led_delay_on[s][n] # 0 \/ led_delay_off[s][n] # 0

\* the byte at offset i of the report is the duty_off, the duty_on byte of the
\* timing slot of LED n, which is slot 3 - n
IsDutyOff(i, n) == i = OFF_LED0 + LED_STRUCT_SIZE * (3 - n) + OFF_DUTY_OFF
IsDutyOn(i, n) == i = OFF_LED0 + LED_STRUCT_SIZE * (3 - n) + OFF_DUTY_ON

\* C27: in the report the worker has just built, the slot 3 - n of a blinking
\* LED n carries its two delays, and every byte that is not one of these, a
\* rumble byte or the bitmap byte, the slots of the LEDs that do not blink
\* included, is the byte of default_report
C27_TimingSlots ==
  \A s \in Sessions :
     Did("worker_encode", s) =>
        /\ Len(outbuf[s]) = REPORT_SIZE
        /\ \A i \in 0..(REPORT_SIZE - 1) :
              IF \E n \in Leds : Blinks(s, n) /\ IsDutyOff(i, n)
              THEN \E n \in Leds : IsDutyOff(i, n) /\ GetByte(outbuf[s], i) = led_delay_off[s][n]
              ELSE IF \E n \in Leds : Blinks(s, n) /\ IsDutyOn(i, n)
              THEN \E n \in Leds : IsDutyOn(i, n) /\ GetByte(outbuf[s], i) = led_delay_on[s][n]
              ELSE i \notin {OFF_RIGHT_MOTOR_ON, OFF_LEFT_MOTOR_FORCE, OFF_LEDS_BITMAP}
                      => GetByte(outbuf[s], i) = GetByte(default_report, i)

\* a report built while LED 0 does not blink, LED 1 blinks with both delays
\* and LED 3 with one: the last slot is the template's, slot 2 carries 40 and
\* 30, slot 0 carries 20 and 0
C27_Witness ==
  /\ Did("worker_encode", 1)
  /\ ~Blinks(1, 0) /\ Blinks(1, 1) /\ Blinks(1, 3)
  /\ SubSeq(outbuf[1], 27, 31) = <<255, 39, 16, 0, 50>>
  /\ SubSeq(outbuf[1], 22, 26) = <<255, 39, 16, 40, 30>>
  /\ SubSeq(outbuf[1], 12, 16) = <<255, 39, 16, 20, 0>>
\* ---------------------------------------------------------------------------
\* a transmission that fails

\* C28: when hid_hw_raw_request fails in the worker, the worker ends its run,
\* queues nothing because of it and changes neither the device state nor the
\* lifecycle state of the session; a LED or rumble request made next on the
\* operational session queues the worker as after a transmission that
\* succeeded
C28_SendFailureNonFatal ==
  [][\A s \in Sessions :
        /\ (Did("worker_send", s)' /\ last'.ret < 0) =>
              /\ wrun'[s] = "idle"
              /\ pending'[s] = pending[s]
              /\ UNCHANGED <<regVars, pc, failing, device_id, list_node,
                             state_worker_initialized, defer_initialization, hw_open,
                             battery_capacity, battery_status, axes, ledVars, ffVars>>
        /\ (/\ Did("worker_send", s) /\ last.ret < 0
            /\ Operational(s)
            /\ IsMutator(last'.op) /\ last'.s = s /\ last'.ret = 1) =>
              pending'[s] = 1]_vars

\* a transmission of the worker has failed on an attached session and left
\* nothing queued
C28_Witness ==
  /\ Did("worker_send", 1)
  /\ last.ret = -EINVAL
  /\ pc[1] = "operational"
  /\ pending[1] = 0
  /\ wrun[1] = "idle"
\* ---------------------------------------------------------------------------
\* the delays of a blink request

\* the delay in deciseconds the request is to store for a delay of ms
Deciseconds(ms) == (IF ms > 2550 THEN 2550 ELSE ms) \div 10

\* C29 as stated: after sony_led_blink_set on a registered LED with the
\* delays on_ms and off_ms the LED has the delays min(on_ms, 2550) div 10 and
\* min(off_ms, 2550) div 10, or 50 and 50 for the request (0, 0); both are
\* in 0..255 and they are not both zero
C29_AsStated ==
  \A s \in Sessions :
     Did("set_blink", s) =>
        LET n == last.arg[1]
            on_ms == last.arg[4]
            off_ms == last.arg[5]
            on == led_delay_on[s][n]
            off == led_delay_off[s][n]
        IN /\ on = (IF on_ms = 0 /\ off_ms = 0 THEN 50 ELSE Deciseconds(on_ms))
           /\ off = (IF on_ms = 0 /\ off_ms = 0 THEN 50 ELSE Deciseconds(off_ms))
           /\ on \in 0..255 /\ off \in 0..255
           /\ ~(on = 0 /\ off = 0)
\* ---------------------------------------------------------------------------
\* the brightness and the blinking

\* C30: after a call of sony_led_set_brightness on the registered LED n,
\* whether it has sent a report or not, both delays of LED n are zero and
\* the delays of the other LEDs are the ones they had
C30_SetLedStopsBlinking ==
  [][\A s \in Sessions :
        Did("set_led", s)' =>
           LET n == last'.arg[1]
           IN /\ led_delay_on'[s][n] = 0
              /\ led_delay_off'[s][n] = 0
              /\ \A k \in Leds \ {n} :
                    /\ led_delay_on'[s][k] = led_delay_on[s][k]
                    /\ led_delay_off'[s][k] = led_delay_off[s][k]]_vars

\* LED 0 has been set to the value it had, which sent a report and left it
\* without delays, while LED 1 keeps blinking
C30_Witness ==
  /\ Did("set_led", 1)
  /\ last.arg[1] = 0 /\ last.arg[2] = 1 /\ last.arg[3] = 1
  /\ last.ret = 1
  /\ ~Has(quirks[1], SIXAXIS_CONTROLLER_USB)
  /\ led_delay_on[1][0] = 0 /\ led_delay_off[1][0] = 0
  /\ led_delay_on[1][1] = 10
\* ---------------------------------------------------------------------------
\* the forced update of the controller on USB

\* C31: a call of sony_led_set_brightness on a registered LED of a sixaxis on
\* USB sends the LED report even if the value is the one stored; on any other
\* session a call with the stored value on an LED without delays sends
\* nothing and changes nothing
C31_ForcedUpdateOnUsb ==
  [][\A s \in Sessions :
        Did("set_led", s)' =>
           LET n == last'.arg[1]
               value == last'.arg[2]
           IN IF Has(quirks[s], SIXAXIS_CONTROLLER_USB)
              THEN /\ last'.ret = 1
                   /\ lastBy'[s] = "set_led"
                   /\ lastSent'[s] = BuzzReport(led_state'[s])
                   /\ led_state'[s][n] = value
              ELSE (value = led_state[s][n] /\ led_delay_on[s][n] = 0
                                            /\ led_delay_off[s][n] = 0)
                      => /\ last'.ret = 0
                         /\ UNCHANGED <<regVars, lifeVars, battVars, ledVars,
                                        ffVars, workVars, defer_initialization,
                                        susp>>]_vars

\* the controller on USB has been sent the LED report for the value that
\* LED 1, which has no delays, had already
C31_Witness ==
  /\ Did("set_led", 1)
  /\ Has(quirks[1], SIXAXIS_CONTROLLER_USB)
  /\ last.arg[1] = 1 /\ last.arg[2] = 1 /\ last.arg[3] = 1
  /\ last.ret = 1
  /\ lastBy[1] = "set_led"
  /\ led_delay_on[1][1] = 0 /\ led_delay_off[1][1] = 0
\* ---------------------------------------------------------------------------
\* the bytes of the report that the decoding uses

\* C32 as stated: while a 49-byte input report is decoded every index of the
\* report that is read or written is one of 0..48, the bytes that were
\* delivered.
C32_AsStated ==
  \A s \in Sessions :
     Decoded(s) =>
        \A i \in RawEventIndexes \cup ParseIndexes : i \in 0..(last.arg[1] - 1)
\* ---------------------------------------------------------------------------
\* one physical controller on two buses

\* the session is attached and has read a physical address
AttachedWithAddress(s) == pc[s] = "operational" /\ mac_address[s] # 0

\* C33 as stated: two sessions attached at the same time that both have their
\* physical address never have the same address with different bus
\* classifications, one on USB and one on Bluetooth.
C33_AsStated ==
  \A s \in Sessions : \A t \in Sessions \ {s} :
     (/\ AttachedWithAddress(s) /\ AttachedWithAddress(t)
      /\ mac_address[s] = mac_address[t])
        => IsBt(quirks[s]) = IsBt(quirks[t])
\* ---------------------------------------------------------------------------
\* the entries of the registry

\* the session is detached, or its attach has failed and cleaned up
Detached(s) == pc[s] \in {"unbound", "gone", "failed"}

\* the registration of the session returned the duplicate flag
FlaggedDuplicate(s) ==
  pc[s] \notin {"unbound", "a_id", "a_add"} /\ append_dev_id[s] = 1

\* C34: sony_device_list never holds two entries with the same physical
\* address, and every entry is the one of a session that has registered an
\* address and has not gone through sony_remove_dev_list: a detached session,
\* a session whose attach has failed and a session flagged as a duplicate
\* have no entry
C34_RegistryEntries ==
  /\ \A i \in 1..Len(sony_device_list) : \A j \in 1..Len(sony_device_list) :
        i # j => mac_address[sony_device_list[i]] # mac_address[sony_device_list[j]]
  /\ \A s \in Sessions :
        InList(s) => /\ ~Detached(s)
                     /\ ~FlaggedDuplicate(s)
                     /\ pc[s] \in {"a_alloc", "a_oper", "a_leds", "a_batt", "a_ff",
                                   "operational", "c_cancel", "c_sync", "c_list"}
                     /\ mac_address[s] # 0
                     /\ list_node[s] = "linked"

\* two sessions with one address are attached, the first with the entry and
\* the second flagged as a duplicate and without one
C34_Witness ==
  \E s \in Sessions : \E t \in Sessions \ {s} :
     /\ pc[s] = "operational" /\ InList(s)
     /\ pc[t] = "operational" /\ FlaggedDuplicate(t) /\ ~InList(t)
     /\ mac_address[s] = mac_address[t]
     /\ Len(sony_device_list) = 1
\* ---------------------------------------------------------------------------
\* the encoder the worker calls

\* C35: whenever state_worker_initialized is 1 the encoder send_output_report
\* is set, and so it is whenever the state worker is queued or running: the
\* worker never calls a null encoder
C35_EncoderSetBeforeFlush ==
  \A s \in Sessions :
     (state_worker_initialized[s] = 1 \/ pending[s] = 1 \/ wrun[s] # "idle")
        => send_output_report[s] # "NULL"

\* the worker is inside the encoder while the detach has already cleared
\* state_worker_initialized and waits for it
C35_Witness ==
  \E s \in Sessions :
     /\ wrun[s] = "send"
     /\ state_worker_initialized[s] = 0
     /\ pc[s] = "c_sync"
     /\ send_output_report[s] = "sixaxis_send_output_report"
\* ---------------------------------------------------------------------------
\* the guitar, a device without the sixaxis quirks

\* the session is the one of a guitar, from sony_probe to the end of its detach
Guitar(s) == pc[s] # "unbound" /\ Has(quirks[s], GH_GUITAR_CONTROLLER)

\* C36: a session without the sixaxis quirks attaches without a failure, has
\* device_id -1 once sony_set_device_id has run, has no entry in
\* sony_device_list, and its state worker is never queued or running; no step
\* of the session, of its attach, of its life or of its detach, changes the
\* pool of ids or the list
C36_GuitarTakesNothing ==
  /\ [](\A s \in Sessions :
          Guitar(s) =>
             /\ pc[s] # "failed" /\ ~failing[s]
             /\ pc[s] # "a_id" => device_id[s] = -1
             /\ ~InList(s) /\ list_node[s] = "null"
             /\ pending[s] = 0 /\ wrun[s] = "idle"
             /\ state_worker_initialized[s] = 0
             /\ lastSent[s] = NoBuf)
  /\ [][\A s \in Sessions :
          ((Guitar(s) \/ Guitar(s)') /\ last'.s = s)
             => UNCHANGED <<sony_device_list, ida>>]_vars

\* the guitar has been attached and then detached while another controller
\* holds id 0 and the entry of the list
C36_Witness ==
  /\ Guitar(1)
  /\ pc[1] = "gone"
  /\ device_id[1] = -1
  /\ ida = {0}
  /\ sony_device_list = <<2>>
====
